---- MODULE Spec2Model ----
(***************************************************************************)
(* A model of the holder-PNL imbalance scanner: the imbalance calculator   *)
(* (src/src/analysis/imbalance_calculator.py), the resolution parser, the  *)
(* bulk paging of closed markets and the reconciliation run                *)
(* (src/scripts/resolve_markets.py), the market / backtest-snapshot /      *)
(* session store (src/src/db/repository.py), the scan run                  *)
(* (src/scripts/run_scan.py), the PNL lookup and its cache                 *)
(* (src/src/fetchers/leaderboard_fetcher.py) and the market catalog        *)
(* (src/src/fetchers/market_fetcher.py).                                   *)
(*                                                                         *)
(* Python floats are modelled as exact rationals <<numerator, denominator>>*)
(* with a positive denominator; Python's None for an Optional[float] is    *)
(* the pair <<0, 0>>.  Every comparison the code makes is between values   *)
(* whose exact order the float computation preserves (quotients of small   *)
(* integers, sums, products by 50 and 100).                                *)
(***************************************************************************)
EXTENDS Integers, Sequences, FiniteSets, TLC

VARIABLES
    \* where the modelled call stands: "start" before it, "done" after it
    \* ("loop" at the head of the paging loop)
    pc,
    \* ImbalanceCalculator.calculate_imbalance: self.threshold, its two
    \* arguments and the tuple it returned
    threshold, yes_analysis, no_analysis, imbalance,
    \* ImbalanceCalculator.analyze_side: its holder list and its return value
    holders, analysis,
    \* ImbalanceCalculator._calculate_data_quality: the arguments and result
    \* of the latest call and of the call before it
    dq_args, dq_score, dq_prev,
    \* datetime.now() as a timestamp
    now,
    \* parse_resolution: its argument and what it returned or raised
    market_data, resolution,
    \* the rows of table markets, and the argument of the latest upsert_market
    markets, mk_call,
    \* the rows of table backtest_snapshots, the highest id AUTOINCREMENT has
    \* given out, and the latest repository call with what it returned
    backtest_snapshots, snapshot_seq, bt_call,
    \* fetch_recent_closed_markets: its argument target_ids, its locals
    \* closed_markets, offset, found_count, page and batch, and the offsets
    \* of the requests sent to the closed-markets listing so far
    target_ids, closed_markets, offset, found_count, page, batch, requests,
    \* main of resolve_markets.py: its set unresolved_ids, the targets the loop
    \* at hand has not visited yet, its list not_found, the targets whose
    \* record it took from the bulk result, and for every market id the
    \* number of fetch_market_by_id requests and of
    \* update_backtest_resolution calls it has made in the run
    unresolved_ids, todo, not_found, bulk_parsed, id_requests, run_writes,
    \* run_scan: the rows of tables scan_sessions and scan_results, its
    \* locals session_id, scanned_count, flagged_count, markets
    \* (scan_markets), the loop index i (batch_start), batch_results and the
    \* position of the loop over a batch (batch_pos), the kinds of calls
    \* that have raised in the run, whether run_scan has raised to its
    \* caller, and the number of enrich_holders_with_pnl calls it has made
    scan_sessions, scan_results, session_id, scanned_count, flagged_count,
    scan_markets, batch_start, batch_results, batch_pos, faults, raised,
    enrich_requests,
    \* LeaderboardFetcher: its _pnl_cache, enrich_holders_with_pnl's argument
    \* holders, its loop index i (enrich_start), the calculate_wallet_pnl
    \* tasks of the gathered batch, and the number of calls made so far
    pnl_cache, enrich_holders, enrich_start, enrich_tasks, enrich_calls,
    \* ActiveMarketFetcher: parse_market's argument raw, the fetcher's
    \* max_days_to_expiry and what parse_market returned (a list with the market,
    \* or the empty list for None), and fetch_all_active_markets' arguments
    \* page_size and max_markets and its locals all_markets and offset
    raw, max_days_to_expiry, parsed, page_size, max_markets, all_markets,
    catalog_offset

calc_vars == <<threshold, yes_analysis, no_analysis, imbalance>>
side_vars == <<holders, analysis>>
dq_vars == <<dq_args, dq_score, dq_prev>>
parse_vars == <<market_data, resolution>>
market_vars == <<markets, mk_call>>
backtest_vars == <<backtest_snapshots, snapshot_seq, bt_call>>
paging_vars ==
    <<target_ids, closed_markets, offset, found_count, page, batch, requests>>
recon_vars ==
    <<unresolved_ids, todo, not_found, bulk_parsed, id_requests, run_writes>>
scan_vars ==
    <<scan_sessions, scan_results, session_id, scanned_count, flagged_count,
      scan_markets, batch_start, batch_results, batch_pos, faults, raised,
      enrich_requests>>
enrich_vars ==
    <<pnl_cache, enrich_holders, enrich_start, enrich_tasks, enrich_calls>>
catalog_vars ==
    <<raw, max_days_to_expiry, parsed, page_size, max_markets, all_markets,
      catalog_offset>>
vars ==
    <<pc, calc_vars, side_vars, dq_vars, now, parse_vars, market_vars,
      backtest_vars, paging_vars,
      recon_vars,
      scan_vars,
      enrich_vars,
      catalog_vars>>

----------------------------------------------------------------------------
(* Floats as rationals *)

None == <<0, 0>>
IsNone(x) == x[2] = 0
R(n) == <<n, 1>>
RLt(a, b) == a[1] * b[2] < b[1] * a[2]
RLe(a, b) == a[1] * b[2] <= b[1] * a[2]
REq(a, b) == a[1] * b[2] = b[1] * a[2]
RAdd(a, b) == <<a[1] * b[2] + b[1] * a[2], a[2] * b[2]>>
RSub(a, b) == <<a[1] * b[2] - b[1] * a[2], a[2] * b[2]>>
RMulInt(a, k) == <<a[1] * k, a[2]>>
RDivInt(a, k) == <<a[1], a[2] * k>>
RMin(a, b) == IF RLe(a, b) THEN a ELSE b
RAbs(a) == IF a[1] < 0 THEN <<-a[1], a[2]>> ELSE a

\* Python's "x or 0" on an Optional[float]: None and 0.0 both give 0
OrZero(x) == IF IsNone(x) \/ x[1] = 0 THEN R(0) ELSE x

----------------------------------------------------------------------------
(* calculate_imbalance *)

IMBALANCE_THRESHOLD == <<3, 5>>

\* base = winning_pct * 100
score_base(winning_pct) == RMulInt(winning_pct, 100)

\* diff_bonus = (winning_pct - losing_pct) * 50
score_diff_bonus(winning_pct, losing_pct) ==
    RMulInt(RSub(winning_pct, losing_pct), 50)

\* A variant of the PNL bonus whose comparisons are not strict
score_pnl_bonus_not_strict(winning_pnl) ==
    IF RLe(R(50000), winning_pnl) THEN 10
    ELSE IF RLe(R(10000), winning_pnl) THEN 5 ELSE 0

\* pnl_bonus: 10 above 50000, else 5 above 10000, else 0
score_pnl_bonus(winning_pnl) ==
    IF RLt(R(50000), winning_pnl) THEN 10
    ELSE IF RLt(R(10000), winning_pnl) THEN 5 ELSE 0

\* A variant of calc_score that returns the sum without capping it at 100
calc_score_uncapped(winning_pct, losing_pct, winning_pnl) ==
    RAdd(RAdd(score_base(winning_pct),
              score_diff_bonus(winning_pct, losing_pct)),
         R(score_pnl_bonus(winning_pnl)))

calc_score(winning_pct, losing_pct, winning_pnl) ==
    RMin(RAdd(RAdd(score_base(winning_pct),
                   score_diff_bonus(winning_pct, losing_pct)),
              R(score_pnl_bonus(winning_pnl))),
         R(100))

\* A variant of the YES check that demands strictly more than the threshold
yes_conditions_strict_threshold(ya, na, thr) ==
    /\ RLt(thr, ya.profitable_pct)
    /\ RLt(na.profitable_pct, ya.profitable_pct)
    /\ RLt(R(0), OrZero(ya.avg_overall_pnl))
    /\ RLt(OrZero(na.avg_overall_pnl), OrZero(ya.avg_overall_pnl))

\* The condition of the "Check YES side" branch
yes_conditions(ya, na, thr) ==
    /\ RLe(thr, ya.profitable_pct)
    /\ RLt(na.profitable_pct, ya.profitable_pct)
    /\ RLt(R(0), OrZero(ya.avg_overall_pnl))
    /\ RLt(OrZero(na.avg_overall_pnl), OrZero(ya.avg_overall_pnl))

\* A variant of the NO check that leaves out the comparisons with the YES side
no_conditions_own_side_only(ya, na, thr) ==
    /\ RLe(thr, na.profitable_pct)
    /\ RLt(R(0), OrZero(na.avg_overall_pnl))

\* The condition of the "Check NO side" branch
no_conditions(ya, na, thr) ==
    /\ RLe(thr, na.profitable_pct)
    /\ RLt(ya.profitable_pct, na.profitable_pct)
    /\ RLt(R(0), OrZero(na.avg_overall_pnl))
    /\ RLt(OrZero(ya.avg_overall_pnl), OrZero(na.avg_overall_pnl))

\* The returned tuple (yes_pct, no_pct, is_flagged, flagged_side, score)
calculate_imbalance(ya, na, thr) ==
    LET yes_pct == ya.profitable_pct
        no_pct == na.profitable_pct
        yes_avg_pnl == OrZero(ya.avg_overall_pnl)
        no_avg_pnl == OrZero(na.avg_overall_pnl)
    IN  IF yes_conditions(ya, na, thr)
        THEN [yes_pct |-> yes_pct, no_pct |-> no_pct, is_flagged |-> TRUE,
              flagged_side |-> "YES",
              imbalance_score |-> calc_score(yes_pct, no_pct, yes_avg_pnl)]
        ELSE IF no_conditions(ya, na, thr)
        THEN [yes_pct |-> yes_pct, no_pct |-> no_pct, is_flagged |-> TRUE,
              flagged_side |-> "NO",
              imbalance_score |-> calc_score(no_pct, yes_pct, no_avg_pnl)]
        ELSE [yes_pct |-> yes_pct, no_pct |-> no_pct, is_flagged |-> FALSE,
              flagged_side |-> "None", imbalance_score |-> R(0)]

\* Inputs of calculate_imbalance: profitable fractions p/k with at most
\* MaxKnown holders of known PNL, the fractions of the documented examples,

----------------------------------------------------------------------------
(* _calculate_data_quality and analyze_side *)

TOP_HOLDER_PERCENT == <<1, 2>>

\* A variant of the quality score that credits the holders of unknown PNL
calculate_data_quality_unknown_ratio(known_count, total_analyzed, avg_overall, avg_realized) ==
    IF total_analyzed = 0 THEN R(0)
    ELSE RMin(RAdd(<<(total_analyzed - known_count) * 50, total_analyzed>>,
                   RMulInt(RMin(<<total_analyzed, 20>>, R(1)), 30)),
              R(100))

\* _calculate_data_quality as a function of its four arguments
calculate_data_quality(known_count, total_analyzed, avg_overall, avg_realized) ==
    IF total_analyzed = 0 THEN R(0)
    ELSE
    LET known_ratio == <<known_count, total_analyzed>>
        sample_score == RMulInt(RMin(<<total_analyzed, 20>>, R(1)), 30)
        agreement ==
            IF ~IsNone(avg_overall) /\ ~IsNone(avg_realized)
            THEN IF \/ RLt(R(0), avg_overall) /\ RLt(R(0), avg_realized)
                    \/ RLe(avg_overall, R(0)) /\ RLe(avg_realized, R(0))
                 THEN 20
                 ELSE IF RLt(RAbs(avg_realized), R(1000)) THEN 15 ELSE 5
            ELSE IF ~IsNone(avg_overall) THEN 10
            ELSE 0
    IN  RMin(RAdd(RAdd(RMulInt(known_ratio, 50), sample_score), R(agreement)),
             R(100))

RECURSIVE SumAmount(_, _)
\* sum(h.amount for h in holders[:n])
SumAmount(hs, n) == IF n = 0 THEN 0 ELSE SumAmount(hs, n - 1) + hs[n].amount

RECURSIVE SumPnl(_, _, _)
\* sum of the values of field f that are not None among holders[:n]
SumPnl(hs, f, n) ==
    IF n = 0 THEN R(0)
    ELSE IF IsNone(hs[n][f]) THEN SumPnl(hs, f, n - 1)
    ELSE RAdd(SumPnl(hs, f, n - 1), hs[n][f])

\* the positions of the holders whose field f is not None
Known(hs, f) == {i \in 1..Len(hs) : ~IsNone(hs[i][f])}

\* sum(values) / len(values) if values else None
Average(hs, f) ==
    IF Known(hs, f) = {} THEN None
    ELSE RDivInt(SumPnl(hs, f, Len(hs)), Cardinality(Known(hs, f)))

profitable(hs) ==
    {i \in 1..Len(hs) :
        ~IsNone(hs[i].overall_pnl) /\ RLt(R(0), hs[i].overall_pnl)}

\* A variant of the losing list that leaves out a PNL of exactly 0
losing_strictly_negative(hs) ==
    {i \in 1..Len(hs) :
        ~IsNone(hs[i].overall_pnl) /\ RLt(hs[i].overall_pnl, R(0))}

losing(hs) ==
    {i \in 1..Len(hs) :
        ~IsNone(hs[i].overall_pnl) /\ RLe(hs[i].overall_pnl, R(0))}

unknown(hs) == {i \in 1..Len(hs) : IsNone(hs[i].overall_pnl)}

\* the loop that counts holders until the cumulative amount reaches
\* TOP_HOLDER_PERCENT of the total balance
top_50_pct_count(hs) ==
    LET total_balance == SumAmount(hs, Len(hs))
        reached == {i \in 1..Len(hs) :
                       RLe(RMulInt(TOP_HOLDER_PERCENT, total_balance),
                           R(SumAmount(hs, i)))}
    IN  IF reached = {} THEN Len(hs)
        ELSE CHOOSE i \in reached : \A j \in reached : i <= j

analyze_side(hs, side_name) ==
    IF Len(hs) = 0
    THEN [side |-> side_name, total_holders |-> 0, top_n_count |-> 0,
          top_50_pct_count |-> 0, profitable_count |-> 0, losing_count |-> 0,
          unknown_count |-> 0, profitable_pct |-> R(0), unknown_pct |-> R(1),
          avg_overall_pnl |-> None, avg_realized_pnl |-> None,
          avg_30d_pnl |-> None, total_position_size |-> 0,
          data_quality_score |-> R(0)]
    ELSE
    LET known_count == Cardinality(profitable(hs)) + Cardinality(losing(hs))
        avg_overall == Average(hs, "overall_pnl")
        avg_realized == Average(hs, "realized_pnl")
    IN  [side |-> side_name,
         total_holders |-> Len(hs),
         top_n_count |-> Len(hs),
         top_50_pct_count |-> top_50_pct_count(hs),
         profitable_count |-> Cardinality(profitable(hs)),
         losing_count |-> Cardinality(losing(hs)),
         unknown_count |-> Cardinality(unknown(hs)),
         profitable_pct |-> IF known_count > 0
                            THEN <<Cardinality(profitable(hs)), known_count>>
                            ELSE R(0),
         unknown_pct |-> <<Cardinality(unknown(hs)), Len(hs)>>,
         avg_overall_pnl |-> avg_overall,
         avg_realized_pnl |-> avg_realized,
         avg_30d_pnl |-> Average(hs, "pnl_30d"),
         total_position_size |-> SumAmount(hs, Len(hs)),
         data_quality_score |->
             calculate_data_quality(known_count, Len(hs),
                                    avg_overall, avg_realized)]

----------------------------------------------------------------------------
(* parse_resolution *)

\* Timestamps are positive integers; NoTime is Python's None for one
NoTime == 0
\* Prices are in hundredths (97 is 0.97); BadPrice is an entry float() rejects
BadPrice == -1

\* str.lower() on the winningOutcome strings of the model
Lower(str) ==
    CASE str \in {"Yes", "YES", "yes"} -> "yes"
      [] str \in {"No", "NO", "no"} -> "no"
      [] str \in {"True", "true"} -> "true"
      [] OTHER -> str

\* closed or resolved or closed_time
is_closed(md) == md.closed \/ md.resolved \/ md.closedTime.kind # "none"

\* the list that len(outcome_prices) is taken of: the field itself, the
\* decoded JSON string, or [] when the field is absent or does not decode
outcome_prices(md) ==
    IF md.outcomePrices.kind \in {"list", "json"} THEN md.outcomePrices.items
    ELSE <<>>

\* A variant of the price test that accepts a price of exactly 0.95
price_resolved_at_or_above(price) == price >= 95

\* price > 0.95
price_resolved(price) == price > 95

\* winning_outcome as inferred from the outcome prices ("None" when it stays None)
winner_from_prices(prices) ==
    IF Len(prices) >= 2
    THEN IF prices[1] = BadPrice \/ prices[2] = BadPrice THEN "None"
         ELSE IF price_resolved(prices[1]) THEN "Yes"
         ELSE IF price_resolved(prices[2]) THEN "No"
         ELSE "None"
    ELSE "None"

\* "YES" or "NO" from a winning outcome that is not None
normalize_outcome(w) ==
    IF w.kind = "str"
    THEN IF Lower(w.v) \in {"yes", "true", "1"} THEN "YES" ELSE "NO"
    ELSE IF w.v = "True" THEN "YES" ELSE "NO"

\* the int() of one of closedTime, resolvedAt, closedAt, or NoTime
timestamp_of(field, clock) ==
    CASE field.kind \in {"iso", "int"} -> field.t
      [] field.kind = "bad" -> clock
      [] OTHER -> NoTime

\* closed_time or resolvedAt or closedAt, then the conversion, then now
resolved_at_of(md, clock) ==
    LET chosen == IF md.closedTime.kind # "none" THEN md.closedTime
                  ELSE IF md.resolvedAt.kind # "none" THEN md.resolvedAt
                  ELSE md.closedAt
    IN  IF chosen.kind = "none" THEN clock ELSE timestamp_of(chosen, clock)

Unresolved == [raised |-> FALSE, resolved_outcome |-> "None", resolved_at |-> NoTime]

parse_resolution(md, clock) ==
    IF ~is_closed(md) THEN Unresolved
    ELSE IF md.winningOutcome.kind = "none" /\ md.outcomePrices.kind = "null"
    THEN \* len(None) raises TypeError
         [raised |-> TRUE, resolved_outcome |-> "None", resolved_at |-> NoTime]
    ELSE
    LET winning_outcome ==
            IF md.winningOutcome.kind = "none"
            THEN LET w == winner_from_prices(outcome_prices(md))
                 IN  IF w = "None" THEN [kind |-> "none", v |-> ""]
                     ELSE [kind |-> "str", v |-> w]
            ELSE md.winningOutcome
    IN  IF winning_outcome.kind = "none" THEN Unresolved
        ELSE [raised |-> FALSE,
              resolved_outcome |-> normalize_outcome(winning_outcome),
              resolved_at |-> resolved_at_of(md, clock)]

----------------------------------------------------------------------------
(* ScannerRepository: markets and backtest_snapshots *)

\* SQL NULL in an INTEGER column
NullInt == -1

\* the rows of a table whose market_id is the given one
rows_of(rows, market_id) == {r \in rows : r.market_id = market_id}

\* A variant of the upsert that keeps the stored row on a conflict
upsert_market_ignore(rows, market, clock) ==
    IF rows_of(rows, market.market_id) # {} THEN rows
    ELSE rows \cup
         {[market_id |-> market.market_id,
           condition_id |-> market.condition_id,
           question |-> market.question, slug |-> market.slug,
           token_id_yes |-> market.token_id_yes,
           token_id_no |-> market.token_id_no,
           end_date |-> market.end_date, category |-> market.category,
           resolved_outcome |-> "None", resolved_at |-> NoTime,
           first_seen_at |-> market.fetched_at,
           last_scanned_at |-> NoTime]}

\* INSERT INTO markets ... ON CONFLICT(market_id) DO UPDATE SET question,
\* slug, end_date, category, last_scanned_at
upsert_market(rows, market, clock) ==
    IF rows_of(rows, market.market_id) # {}
    THEN {IF r.market_id = market.market_id
          THEN [r EXCEPT !.question = market.question,
                         !.slug = market.slug,
                         !.end_date = market.end_date,
                         !.category = market.category,
                         !.last_scanned_at = clock]
          ELSE r : r \in rows}
    ELSE rows \cup
         {[market_id |-> market.market_id,
           condition_id |-> market.condition_id,
           question |-> market.question, slug |-> market.slug,
           token_id_yes |-> market.token_id_yes,
           token_id_no |-> market.token_id_no,
           end_date |-> market.end_date, category |-> market.category,
           resolved_outcome |-> "None", resolved_at |-> NoTime,
           first_seen_at |-> market.fetched_at,
           last_scanned_at |-> NoTime]}

\* A variant of the lookup that never finds a snapshot
existing_snapshot_none(rows, market_id) == {}

\* SELECT id FROM backtest_snapshots WHERE market_id = ?
existing_snapshot(rows, market_id) == rows_of(rows, market_id)

\* fetchone(): the row with the lowest id
first_row(rows) == CHOOSE r \in rows : \A q \in rows : r.id <= q.id

\* the row create_backtest_snapshot inserts
new_snapshot(id, market_id, a) ==
    [id |-> id, market_id |-> market_id,
     scan_result_id |-> a.scan_result_id, flagged_side |-> a.flagged_side,
     edge_pct |-> a.edge_pct, price_at_flag |-> a.price_at_flag,
     flagged_at |-> a.flagged_at, resolved_outcome |-> "None",
     resolved_at |-> NoTime, predicted_correct |-> NullInt,
     theoretical_pnl |-> None]

\* A variant of the payoff that forgets the stake on a win
theoretical_pnl_gross(price_at_flag, predicted_correct) ==
    IF ~IsNone(price_at_flag) /\ RLt(R(0), price_at_flag)
    THEN IF predicted_correct = 1
         THEN <<price_at_flag[2], price_at_flag[1]>>
         ELSE R(-1)
    ELSE None

\* theoretical_pnl of a resolution: (1 / price) - 1 on a win, -1 on a loss,
\* None without a positive price
theoretical_pnl(price_at_flag, predicted_correct) ==
    IF ~IsNone(price_at_flag) /\ RLt(R(0), price_at_flag)
    THEN IF predicted_correct = 1
         THEN <<price_at_flag[2] - price_at_flag[1], price_at_flag[1]>>
         ELSE R(-1)
    ELSE None

\* A variant of the UPDATE without its WHERE market_id = ?
resolve_snapshots_every_row(rows, market_id, resolved_outcome, resolved_at) ==
    {[r EXCEPT !.resolved_outcome = resolved_outcome,
               !.resolved_at = resolved_at] : r \in rows}

\* backtest_snapshots after update_backtest_resolution
resolve_snapshots(rows, market_id, resolved_outcome, resolved_at) ==
    IF rows_of(rows, market_id) = {} THEN rows
    ELSE
    LET snapshot == first_row(rows_of(rows, market_id))
        predicted_correct ==
            IF snapshot.flagged_side = resolved_outcome THEN 1 ELSE 0
        pnl == theoretical_pnl(snapshot.price_at_flag, predicted_correct)
    IN  {IF r.market_id = market_id
         THEN [r EXCEPT !.resolved_outcome = resolved_outcome,
                        !.resolved_at = resolved_at,
                        !.predicted_correct = predicted_correct,
                        !.theoretical_pnl = pnl]
         ELSE r : r \in rows}

\* markets after update_backtest_resolution
resolve_markets(rows, snapshots, market_id, resolved_outcome, resolved_at) ==
    IF rows_of(snapshots, market_id) = {} THEN rows
    ELSE {IF r.market_id = market_id
          THEN [r EXCEPT !.resolved_outcome = resolved_outcome,
                         !.resolved_at = resolved_at]
          ELSE r : r \in rows}

----------------------------------------------------------------------------
(* fetch_recent_closed_markets *)

\* float('inf')
Infinity == 1000000

\* A market id is a string of digits, modelled by its number; NoId is the
\* "" that str(market.get("id", "")) gives for a record without an id
NoId == 0

RECURSIVE MinId(_)
\* min(int(mid) for mid in ids), Infinity for none
MinId(ids) ==
    IF ids = {} THEN Infinity
    ELSE LET i == CHOOSE x \in ids : TRUE
             rest == MinId(ids \ {i})
         IN  IF i < rest THEN i ELSE rest

\* min(int(mid) for mid in target_ids if mid.isdigit()) if target_ids else 0
min_target_id(targets) == IF targets = {} THEN 0 ELSE MinId(targets)

\* batch_min_id after the loop over a batch
batch_min_id(b) == MinId({b[i].id : i \in 1..Len(b)} \ {NoId})

RECURSIVE StoreBatch(_, _, _)
\* closed_markets after the first n records of a batch
StoreBatch(cm, b, n) ==
    IF n = 0 THEN cm
    ELSE LET before == StoreBatch(cm, b, n - 1)
         IN  IF b[n].id = NoId THEN before
             ELSE [i \in DOMAIN before \cup {b[n].id} |->
                      IF i = b[n].id THEN b[n] ELSE before[i]]

RECURSIVE CountTargets(_, _, _)
\* what the first n records of a batch add to found_count
CountTargets(b, targets, n) ==
    IF n = 0 THEN 0
    ELSE CountTargets(b, targets, n - 1)
         + (IF b[n].id # NoId /\ b[n].id \in targets THEN 1 ELSE 0)

\* session.get(.../markets, offset) and the status of its response; a
\* request that fails without a response is logged like a status 500
Request(o, status) == [offset |-> o, status |-> status]

\* A variant of the early stop that compares the wrong way round
past_targets_reversed(b, targets) == batch_min_id(b) > min_target_id(targets)

\* batch_min_id < min_target_id
past_targets(b, targets) == batch_min_id(b) < min_target_id(targets)

----------------------------------------------------------------------------
(* main of resolve_markets.py *)

\* A variant of the query without its WHERE clause
get_unresolved_flagged_markets_all(snapshots, rows) ==
    {b.market_id : b \in {x \in snapshots : rows_of(rows, x.market_id) # {}}}

\* SELECT b.market_id ... FROM backtest_snapshots b JOIN markets m ON
\* b.market_id = m.market_id WHERE b.resolved_outcome IS NULL, as the set
\* of market ids main makes of it
get_unresolved_flagged_markets(snapshots, rows) ==
    {b.market_id :
        b \in {x \in snapshots : /\ rows_of(rows, x.market_id) # {}
                                 /\ x.resolved_outcome = "None"}}

----------------------------------------------------------------------------
(* run_scan and the scan_sessions / scan_results tables *)

MIN_LIQUIDITY == 1000
MIN_HOLDER_COUNT == 5

\* the row create_session inserts
new_session(id, clock) ==
    [id |-> id, started_at |-> clock, completed_at |-> NoTime,
     total_markets |-> 0, scanned_count |-> 0, flagged_markets |-> 0,
     status |-> "running"]

\* UPDATE scan_sessions SET total_markets = ? WHERE id = ?
set_total_markets(rows, id, total) ==
    {IF r.id = id THEN [r EXCEPT !.total_markets = total] ELSE r : r \in rows}

\* A variant of update_session_progress that writes scanned_count only
update_session_progress_scanned_only(rows, id, scanned, flagged) ==
    {IF r.id = id THEN [r EXCEPT !.scanned_count = scanned] ELSE r :
        r \in rows}

\* scan_sessions after update_session_progress
update_session_progress(rows, id, scanned, flagged) ==
    {IF r.id = id
     THEN [r EXCEPT !.scanned_count = scanned, !.flagged_markets = flagged]
     ELSE r : r \in rows}

\* A variant of complete_session that writes the status and the time only
complete_session_status_only(rows, id, total, flagged, status, clock) ==
    {IF r.id = id
     THEN [r EXCEPT !.completed_at = clock, !.status = status]
     ELSE r : r \in rows}

\* scan_sessions after complete_session
complete_session(rows, id, total, flagged, status, clock) ==
    {IF r.id = id
     THEN [r EXCEPT !.completed_at = clock, !.total_markets = total,
                    !.flagged_markets = flagged, !.status = status]
     ELSE r : r \in rows}

\* holders after enrich_holders_with_pnl found the PNL pair pnl for each of
\* them, or found none (pnl = <<None, None>>)
enriched(hs, pnl) ==
    [i \in 1..Len(hs) |->
        [hs[i] EXCEPT !.overall_pnl = pnl[1], !.realized_pnl = pnl[2]]]

\* ImbalanceCalculator.create_scan_result, as far as scan_results stores it
create_scan_result(market_id, yes_holders, no_holders, thr) ==
    LET ya == analyze_side(yes_holders, "YES")
        na == analyze_side(no_holders, "NO")
        im == calculate_imbalance(ya, na, thr)
    IN  [market_id |-> market_id, profitable_skew_yes |-> im.yes_pct,
         profitable_skew_no |-> im.no_pct, is_flagged |-> im.is_flagged,
         flagged_side |-> im.flagged_side,
         imbalance_score |-> im.imbalance_score]

\* the row insert_scan_result inserts
scan_result_row(id, sid, result, clock) ==
    [id |-> id, session_id |-> sid, market_id |-> result.market_id,
     is_flagged |-> IF result.is_flagged THEN 1 ELSE 0,
     flagged_side |-> result.flagged_side,
     imbalance_score |-> result.imbalance_score, scanned_at |-> clock]

\* A variant of the exception test that lets every result through
is_exception_never(result) == FALSE

\* isinstance(result, Exception)
is_exception(result) == result.kind = "error"

\* A variant of the holder test that wants both sides to be short
insufficient_holders_both_sides(result) ==
    Len(result.yes) < MIN_HOLDER_COUNT /\ Len(result.no) < MIN_HOLDER_COUNT

\* len(yes_holders) < MIN_HOLDER_COUNT or len(no_holders) < MIN_HOLDER_COUNT
insufficient_holders(result) ==
    Len(result.yes) < MIN_HOLDER_COUNT \/ Len(result.no) < MIN_HOLDER_COUNT

----------------------------------------------------------------------------
(* LeaderboardFetcher: the positions lookup and its cache *)

\* A wallet address is a pair <<account, letter case>>: the same account
\* written in lower case or with capitals in it.  A variant of str.lower
\* that leaves the address as written
lower_as_written(wallet_address) == wallet_address

\* wallet_address.lower()
lower(wallet_address) == <<wallet_address[1], "lower">>

\* A JSON value of a position field: a number, null or absent, or a string
\* that is no number
Num(v) == [kind |-> "number", v |-> v]
Missing == [kind |-> "null", v |-> 0]
NotANumber == [kind |-> "text", v |-> 0]

\* float(pos.get(field, 0) or 0) raises ValueError
float_raises(value) == value.kind = "text"

\* float(pos.get(field, 0) or 0)
float_or_0(value) == IF value.kind = "number" THEN value.v ELSE 0

\* what fetch_wallet_positions returns for a response: the body on status
\* 200, [] on another status and on an exception of the request
fetch_wallet_positions(response) ==
    IF response.status = 200 THEN response.body ELSE <<>>

\* the sums of cashPnl and of realizedPnl over a list of positions
RECURSIVE sum_pnl(_, _)
sum_pnl(positions, field) ==
    IF positions = <<>> THEN 0
    ELSE float_or_0(Head(positions)[field]) + sum_pnl(Tail(positions), field)

\* The return values of calculate_wallet_pnl: None, a raised exception (as
\* gather hands it back), or the result dictionary
NoPnl ==
    [total_pnl |-> None, cash_pnl |-> None, realized_pnl |-> None,
     position_count |-> 0]
ReturnsNone == [kind |-> "none", pnl |-> NoPnl]
Raises == [kind |-> "exception", pnl |-> NoPnl]
Returns(result) == [kind |-> "pnl", pnl |-> result]

\* calculate_wallet_pnl after the cache miss, from the positions fetched
pnl_of_positions(positions) ==
    IF positions = <<>> THEN ReturnsNone
    ELSE IF \E i \in 1..Len(positions) :
                \/ float_raises(positions[i].cashPnl)
                \/ float_raises(positions[i].realizedPnl)
    THEN Raises
    ELSE Returns([total_pnl |-> R(sum_pnl(positions, "cashPnl")),
                  cash_pnl |-> R(sum_pnl(positions, "cashPnl")),
                  realized_pnl |-> R(sum_pnl(positions, "realizedPnl")),
                  position_count |-> Len(positions)])

\* self._pnl_cache[key] = result
cache_put(cache, key, result) ==
    [w \in DOMAIN cache \cup {key} |-> IF w = key THEN result ELSE cache[w]]

\* the first step of a calculate_wallet_pnl task: the cached result on a
\* hit, otherwise the positions request is sent and the task waits
task_started(cache, wallet_address) ==
    IF lower(wallet_address) \in DOMAIN cache
    THEN [wallet_address |-> wallet_address, pc |-> "done",
          positions |-> <<>>,
          result |-> Returns(cache[lower(wallet_address)])]
    ELSE [wallet_address |-> wallet_address, pc |-> "awaiting",
          positions |-> <<>>, result |-> ReturnsNone]

\* a holder after the loop over zip(batch, results) has seen its result
holder_with_pnl(holder, result) ==
    IF result.kind = "pnl" /\ ~IsNone(result.pnl.total_pnl)
    THEN [holder EXCEPT !.overall_pnl = result.pnl.total_pnl,
                        !.realized_pnl = result.pnl.realized_pnl,
                        !.is_on_leaderboard = TRUE]
    ELSE holder

----------------------------------------------------------------------------
(* ActiveMarketFetcher: parse_market and fetch_all_active_markets *)

\* A list-valued field of a raw record is a Python list, a string holding
\* the JSON text of a list, null, or a string that is no JSON; an absent
\* field is the empty list raw.get defaults to.  Reading its length raises
\* for null (len(None)) and for a string json.loads rejects
decode_raises(field) == field.kind \in {"null", "garbage"}

\* the list after the isinstance(..., str) / json.loads step
decoded(field) == field.items

\* not token (None and the empty string)
NoToken == ""

\* float(outcome_prices[i]) raises for a value that is no number
price_raises(items, i) == Len(items) >= i /\ items[i] = BadPrice

\* float(outcome_prices[i]) if len(outcome_prices) > i else 0.5, with prices
\* given in cents
price_or_half(items, i) == IF Len(items) >= i THEN <<items[i], 100>> ELSE <<1, 2>>

\* A variant of the binary-outcome test that looks at the token ids only
too_few_tokens(outcomes, clob_token_ids) == Len(clob_token_ids) < 2

\* len(outcomes) < 2 or len(clob_token_ids) < 2
too_few(outcomes, clob_token_ids) ==
    Len(outcomes) < 2 \/ Len(clob_token_ids) < 2

\* the end date parse_market works with: the parsed endDate, or None for an
\* absent endDate and for one fromisoformat rejects
parsed_end_date(endDate) == IF endDate.kind = "iso" THEN endDate.t ELSE NoTime

\* end_date and end_date < datetime.now(...)
expired(end_date, clock) == end_date # NoTime /\ end_date < clock

\* the max_days_to_expiry filter, in days
too_far(end_date, clock, max_days) ==
    /\ end_date # NoTime
    /\ max_days # NullInt /\ max_days # 0
    /\ end_date - clock > max_days

\* parse_market: the list with the ActiveMarket it returns, or the empty
\* list when it returns None; every exception inside it ends in return None
parse_market(r, clock, max_days) ==
    IF decode_raises(r.outcomes) \/ decode_raises(r.clobTokenIds) THEN <<>>
    ELSE IF too_few(decoded(r.outcomes), decoded(r.clobTokenIds)) THEN <<>>
    ELSE LET clob_token_ids == decoded(r.clobTokenIds)
             token_yes == IF Len(clob_token_ids) > 0
                          THEN clob_token_ids[1] ELSE NoToken
             token_no == IF Len(clob_token_ids) > 1
                         THEN clob_token_ids[2] ELSE NoToken
         IN  IF token_yes = NoToken \/ token_no = NoToken THEN <<>>
             ELSE IF decode_raises(r.outcomePrices) THEN <<>>
             ELSE IF \/ price_raises(decoded(r.outcomePrices), 1)
                     \/ price_raises(decoded(r.outcomePrices), 2) THEN <<>>
             ELSE IF r.conditionId = "" THEN <<>>
             ELSE IF expired(parsed_end_date(r.endDate), clock) THEN <<>>
             ELSE IF too_far(parsed_end_date(r.endDate), clock, max_days)
             THEN <<>>
             ELSE <<[market_id |-> r.id,
                     condition_id |-> r.conditionId,
                     token_id_yes |-> token_yes,
                     token_id_no |-> token_no,
                     yes_price |-> price_or_half(decoded(r.outcomePrices), 1),
                     no_price |-> price_or_half(decoded(r.outcomePrices), 2),
                     end_date |-> parsed_end_date(r.endDate)]>>

\* the markets parse_market keeps of a page, in page order
RECURSIVE parse_page(_, _, _)
parse_page(raw_markets, clock, max_days) ==
    IF raw_markets = <<>> THEN <<>>
    ELSE parse_market(Head(raw_markets), clock, max_days)
         \o parse_page(Tail(raw_markets), clock, max_days)

\* if max_markets and ...
limit_given(limit) == limit # NullInt /\ limit # 0

----------------------------------------------------------------------------
(* Inputs of the modelled calls and the values of idle variables *)

\* Profitable fractions k/n of up to MaxKnown holders with known PNL, the
\* fractions of the worked examples, and a few average PNL values around
\* the code's comparison points
MaxKnown == 5
ExamplePcts == {<<4, 5>>, <<11, 20>>, <<7, 8>>, <<3, 8>>}
Pcts == {x \in (0..MaxKnown) \X (1..MaxKnown) : x[1] <= x[2]} \cup ExamplePcts
AvgPnls == {None, R(-2000), R(0), R(10000), R(20000), R(50000), R(60000)}
Thresholds == {R(0), IMBALANCE_THRESHOLD, R(1)}
SideInputs == [profitable_pct : Pcts, avg_overall_pnl : AvgPnls]

\* The value of a result variable before the call that sets it
NoImbalance ==
    [yes_pct |-> R(0), no_pct |-> R(0), is_flagged |-> FALSE,
     flagged_side |-> "None", imbalance_score |-> R(0)]

CalcIdle ==
    /\ threshold = IMBALANCE_THRESHOLD
    /\ yes_analysis = [profitable_pct |-> R(0), avg_overall_pnl |-> None]
    /\ no_analysis = [profitable_pct |-> R(0), avg_overall_pnl |-> None]
    /\ imbalance = NoImbalance

SideIdle == holders = <<>> /\ analysis = <<>>
DqIdle == dq_args = <<>> /\ dq_score = None /\ dq_prev = <<>>

\* Holder lists of up to MaxHolders holders, sorted by amount as the
\* holder fetch returns them, with amounts 1..MaxAmount; a holder's overall
\* and realized PNL are unknown, or set together by the enrichment, or
\* cash PNL alone
MaxHolders == 3
MaxAmount == 2
HolderPnls ==
    {<<None, None>>, <<R(-2000), R(-500)>>, <<R(0), R(0)>>,
     <<R(20000), R(-500)>>, <<R(20000), R(2000)>>, <<R(60000), R(-2000)>>,
     <<R(20000), None>>}
Holders ==
    {[amount |-> a, overall_pnl |-> p[1], realized_pnl |-> p[2],
      pnl_30d |-> None] : a \in 1..MaxAmount, p \in HolderPnls}
HolderLists ==
    UNION {{hs \in [1..n -> Holders] :
               \A i \in 1..(n - 1) : hs[i].amount >= hs[i + 1].amount}
           : n \in 0..MaxHolders}

\* Arguments of _calculate_data_quality: up to MaxTotal analysed holders,
\* the 20 holders that earn the full sample score, and more than 20
MaxTotal == 3
TOP_HOLDER_COUNT == 20
Totals == (0..MaxTotal) \cup {TOP_HOLDER_COUNT, TOP_HOLDER_COUNT + 5}
DqAvgs == {None, R(-2000), R(-500), R(20000)}
DqArgs ==
    {a \in [known_count : 0..(TOP_HOLDER_COUNT + 5), total_analyzed : Totals,
            avg_overall : DqAvgs, avg_realized : DqAvgs] :
        a.known_count <= a.total_analyzed}

data_quality_of(a) ==
    calculate_data_quality(a.known_count, a.total_analyzed,
                           a.avg_overall, a.avg_realized)

\* Market records of the listing: closed and resolved flags, a closedTime
\* in one of its formats (timestamps 1..MaxTime), a winningOutcome, and an
\* outcomePrices field that is absent, null, a list or a JSON string of at
\* most MaxPrices entries
MaxPrices == 2
MaxTime == 2
NoField == [kind |-> "none", t |-> NoTime]
ClosedTimes ==
    {NoField, [kind |-> "iso", t |-> 1], [kind |-> "int", t |-> 2],
     [kind |-> "bad", t |-> NoTime]}
WinningOutcomes ==
    {[kind |-> "none", v |-> ""]}
    \cup {[kind |-> "str", v |-> x] : x \in {"Yes", "No", "true", "1", "", "Maybe"}}
    \cup {[kind |-> "bool", v |-> x] : x \in {"True", "False"}}
PriceTokens == {BadPrice, 3, 50, 95, 97}
PriceLists == UNION {[1..n -> PriceTokens] : n \in 0..MaxPrices}
OutcomePrices ==
    {[kind |-> k, items |-> <<>>] : k \in {"absent", "null", "badjson"}}
    \cup {[kind |-> k, items |-> l] : k \in {"list", "json"}, l \in PriceLists}
MarketData ==
    [closed : BOOLEAN, resolved : BOOLEAN, closedTime : ClosedTimes,
     winningOutcome : WinningOutcomes, outcomePrices : OutcomePrices,
     resolvedAt : {NoField, [kind |-> "iso", t |-> 1]},
     closedAt : {NoField}]

ParseIdle ==
    /\ market_data = [closed |-> FALSE, resolved |-> FALSE,
                      closedTime |-> NoField,
                      winningOutcome |-> [kind |-> "none", v |-> ""],
                      outcomePrices |-> [kind |-> "absent", items |-> <<>>],
                      resolvedAt |-> NoField, closedAt |-> NoField]
    /\ resolution = Unresolved

\* The catalog's copies of a market: MaxMarkets market ids; the identity
\* fields (condition id and the two token ids) and the descriptive fields
\* (question, slug, end date, category) each come in two versions; version 2
\* of the descriptive fields has no end date
MaxMarkets == 2
MarketIds == 1..MaxMarkets
Versions == {1, 2}
ConditionIds == <<"0xa", "0xb">>
YesTokens == <<"ya", "yb">>
NoTokens == <<"na", "nb">>
Questions == <<"Will it rain?", "Will it rain today?">>
Slugs == <<"will-it-rain", "will-it-rain-today">>
EndDates == <<1, NoTime>>
Categories == <<"Weather", "Climate">>
ActiveMarket(m, i, d, t) ==
    [market_id |-> m, condition_id |-> ConditionIds[i],
     question |-> Questions[d], slug |-> Slugs[d],
     token_id_yes |-> YesTokens[i], token_id_no |-> NoTokens[i],
     end_date |-> EndDates[d], category |-> Categories[d],
     fetched_at |-> t]

\* Repository calls per run of the model
MaxCalls == 3
NoUpsert == [n |-> 0, market |-> ActiveMarket(1, 1, 1, 0), at |-> 0]
MarketsIdle == markets = {} /\ mk_call = NoUpsert

\* Arguments of create_backtest_snapshot other than the market id
SnapshotArgs ==
    {[scan_result_id |-> 1, flagged_side |-> "YES", edge_pct |-> <<30, 1>>,
      price_at_flag |-> <<1, 4>>, flagged_at |-> 1],
     [scan_result_id |-> 2, flagged_side |-> "NO", edge_pct |-> <<45, 1>>,
      price_at_flag |-> <<3, 5>>, flagged_at |-> 2],
     [scan_result_id |-> NullInt, flagged_side |-> "YES",
      edge_pct |-> <<30, 1>>, price_at_flag |-> <<0, 1>>, flagged_at |-> 2],
     [scan_result_id |-> 3, flagged_side |-> "NO", edge_pct |-> <<45, 1>>,
      price_at_flag |-> None, flagged_at |-> 1],
     [scan_result_id |-> 4, flagged_side |-> "YES", edge_pct |-> <<30, 1>>,
      price_at_flag |-> <<-1, 4>>, flagged_at |-> 1]}
ResolvedTimes == {1, 2}
NoCall ==
    [n |-> 0, op |-> "none", market_id |-> 0,
     args |-> CHOOSE a \in SnapshotArgs : a.scan_result_id = 1,
     resolved_outcome |-> "None", resolved_at |-> NoTime, ret |-> NullInt]
BacktestIdle ==
    backtest_snapshots = {} /\ snapshot_seq = 0 /\ bt_call = NoCall

\* The closed-markets listing: pages of at most resolve_BATCH_SIZE records,
\* each with the id of a market or without an id.  resolve_BATCH_SIZE and
\* max_pages stand for the program's 500 and 20; a rate-limited request is
\* repeated at most MaxRetries times
resolve_BATCH_SIZE == 2
max_pages == 2
MaxRetries == 1
Batches ==
    UNION {[1..n -> [id : MarketIds \cup {NoId}]] : n \in 0..resolve_BATCH_SIZE}
PagingIdle ==
    /\ target_ids = {}
    /\ closed_markets = <<>>
    /\ offset = 0
    /\ found_count = 0
    /\ page = 0
    /\ batch = <<>>
    /\ requests = <<>>

\* What the listing holds about a market: still open, closed with a
\* winningOutcome, closed with final prices, closed without a decisive
\* price, and closed with outcomePrices null
OpenMarket ==
    [closed |-> FALSE, resolved |-> FALSE, closedTime |-> NoField,
     winningOutcome |-> [kind |-> "none", v |-> ""],
     outcomePrices |-> [kind |-> "absent", items |-> <<>>],
     resolvedAt |-> NoField, closedAt |-> NoField]
FeedRecords ==
    {OpenMarket,
     [OpenMarket EXCEPT !.closed = TRUE,
                        !.closedTime = [kind |-> "iso", t |-> 1],
                        !.winningOutcome = [kind |-> "str", v |-> "Yes"]],
     [OpenMarket EXCEPT !.closed = TRUE,
                        !.closedTime = [kind |-> "int", t |-> 2],
                        !.outcomePrices = [kind |-> "json", items |-> <<3, 97>>]],
     [OpenMarket EXCEPT !.closed = TRUE,
                        !.outcomePrices = [kind |-> "list", items |-> <<50, 50>>]],
     [OpenMarket EXCEPT !.closed = TRUE,
                        !.outcomePrices = [kind |-> "null", items |-> <<>>]]}

NoRequests == [id \in MarketIds |-> 0]
ReconIdle ==
    /\ unresolved_ids = {} /\ todo = {} /\ not_found = {}
    /\ bulk_parsed = {}
    /\ id_requests = NoRequests
    /\ run_writes = NoRequests

\* The catalog run_scan gets: up to one more market than a batch holds,
\* each liquid or not; the listing names the markets 1..n, or names market
\* 1 once more in its last record (its pages are cut from a list that
\* moves); batches of scan_BATCH_SIZE markets (the program's BATCH_SIZE
\* is 5)
scan_BATCH_SIZE == 2
CatalogIds ==
    {[i \in 1..n |-> i] : n \in 0..(scan_BATCH_SIZE + 1)}
    \cup {[i \in 1..n |-> IF i = n THEN 1 ELSE i] :
              n \in 2..(scan_BATCH_SIZE + 1)}
Catalogs ==
    UNION {{[i \in 1..Len(ids) |->
                [market_id |-> ids[i], liquidity |-> l[i]]] :
               l \in [1..Len(ids) -> {500, MIN_LIQUIDITY}]} :
           ids \in CatalogIds}

\* The result of a holder fetch that has not settled yet
Pending == [kind |-> "pending", yes |-> <<>>, no |-> <<>>]

\* What fetch_market_holders gives for a market: an exception, one holder
\* on the YES side, or five holders on each side, all without PNL yet
FetchedHolder(a) ==
    [amount |-> a, overall_pnl |-> None, realized_pnl |-> None,
     pnl_30d |-> None]
FiveHolders == [i \in 1..MIN_HOLDER_COUNT |-> FetchedHolder(IF i = 1 THEN 2 ELSE 1)]
HolderResults ==
    {[kind |-> "error", yes |-> <<>>, no |-> <<>>],
     [kind |-> "ok", yes |-> <<FetchedHolder(1)>>, no |-> FiveHolders],
     [kind |-> "ok", yes |-> FiveHolders, no |-> FiveHolders]}

\* What the enrichment of a side finds: nothing (every positions fetch
\* failed or was empty), losses, or gains
EnrichedPnls == {<<None, None>>, <<R(-2000), R(-500)>>, <<R(20000), R(2000)>>}

\* the calls inside run_scan's try block that can raise
FaultKinds ==
    {"catalog", "holders", "enrich", "scoring", "persisting", "progress",
     "summary"}

ScanIdle ==
    /\ scan_sessions = {}
    /\ scan_results = {}
    /\ session_id = 0
    /\ scanned_count = 0
    /\ flagged_count = 0
    /\ scan_markets = <<>>
    /\ batch_start = 0
    /\ batch_results = <<>>
    /\ batch_pos = 0
    /\ faults = {}
    /\ raised = FALSE
    /\ enrich_requests = 0

\* The holders handed to enrich_holders_with_pnl: two accounts, the first
\* written in two letter cases, in lists of up to one more than a batch
\* holds, the holders of one wallet next to each other; batches of
\* enrich_batch_size holders (the program's batch_size is 5); up to
\* MaxEnrichCalls calls on one fetcher
enrich_batch_size == 2
MaxEnrichCalls == 2
Wallets == {<<1, "lower">>, <<1, "mixed">>, <<2, "mixed">>}
WalletRank(w) == IF w[1] = 2 THEN 3 ELSE IF w[2] = "mixed" THEN 2 ELSE 1
UnknownHolder(w) ==
    [wallet_address |-> w, overall_pnl |-> None, realized_pnl |-> None,
     is_on_leaderboard |-> FALSE]
EnrichLists ==
    UNION {{hs \in [1..n -> {UnknownHolder(w) : w \in Wallets}] :
               \A i \in 1..(n - 1) :
                   WalletRank(hs[i].wallet_address)
                       <= WalletRank(hs[i + 1].wallet_address)}
           : n \in 1..(enrich_batch_size + 1)}

\* What a positions request meets: an exception, status 500, status 200
\* with no position, with one or two positions, or with a position whose
\* cashPnl is no number
Position(cash, realized) == [cashPnl |-> cash, realizedPnl |-> realized]
PositionsResponses ==
    {[status |-> 0, body |-> <<>>],
     [status |-> 500, body |-> <<>>],
     [status |-> 200, body |-> <<>>],
     [status |-> 200, body |-> <<Position(Num(100), Num(0))>>],
     [status |-> 200,
      body |-> <<Position(Num(-300), Missing), Position(Num(100), Num(-50))>>],
     [status |-> 200, body |-> <<Position(NotANumber, Num(0))>>]}

EmptyCache == [w \in {} |-> NoPnl]

EnrichIdle ==
    /\ pnl_cache = EmptyCache
    /\ enrich_holders = <<>>
    /\ enrich_start = 0
    /\ enrich_tasks = <<>>
    /\ enrich_calls = 0

\* Raw records of the listing: every combination of an id or none, two
\* outcomes or one (as a list or as JSON text, or null), two token ids, one,
\* an empty one or null, two prices, one, none, null or a price that is no
\* number, a condition id or none, and an end date that is absent,
\* unreadable, past, near or far
ListField(kind, items) == [kind |-> kind, items |-> items]
RawOutcomes ==
    {ListField("list", <<"Yes", "No">>), ListField("json", <<"Yes", "No">>),
     ListField("list", <<"Yes">>), ListField("list", <<>>),
     ListField("null", <<>>)}
RawTokenIds ==
    {ListField("list", <<"tokY", "tokN">>),
     ListField("json", <<"tokY", "tokN">>),
     ListField("list", <<"tokY">>), ListField("list", <<>>),
     ListField("list", <<"tokY", "">>), ListField("list", <<"", "tokN">>),
     ListField("null", <<>>), ListField("garbage", <<>>)}
RawPrices ==
    {ListField("list", <<60, 40>>), ListField("json", <<60, 40>>),
     ListField("list", <<60>>), ListField("list", <<>>),
     ListField("null", <<>>), ListField("garbage", <<>>),
     ListField("json", <<BadPrice, 40>>), ListField("json", <<60, BadPrice>>)}
RawEndDates ==
    {[kind |-> "none", t |-> NoTime], [kind |-> "text", t |-> NoTime],
     [kind |-> "iso", t |-> 1], [kind |-> "iso", t |-> 3],
     [kind |-> "iso", t |-> 5]}
RawMarkets ==
    [id : {"", "m1"}, outcomes : RawOutcomes, clobTokenIds : RawTokenIds,
     outcomePrices : RawPrices, conditionId : {"", "0xc1"},
     endDate : RawEndDates]
MaxDays == {NullInt, 0, 1}
ParseClock == 2

\* The records a listing page is made of: a binary market, one without an
\* id, one with a single token id and one without prices
GoodRaw ==
    [id |-> "m1", outcomes |-> ListField("json", <<"Yes", "No">>),
     clobTokenIds |-> ListField("json", <<"tokY", "tokN">>),
     outcomePrices |-> ListField("json", <<60, 40>>),
     conditionId |-> "0xc1", endDate |-> [kind |-> "none", t |-> NoTime]]
CatalogRecords ==
    {GoodRaw,
     [GoodRaw EXCEPT !.id = ""],
     [GoodRaw EXCEPT !.clobTokenIds = ListField("list", <<"tokY">>)],
     [GoodRaw EXCEPT !.outcomePrices = ListField("list", <<>>)]}

\* Page sizes up to MaxPageSize, limits up to MaxLimit or none, and a
\* listing of up to MaxFeed records
MaxPageSize == 3
MaxLimit == 2
MaxFeed == 4
Pages(n) == UNION {[1..k -> CatalogRecords] : k \in 0..n}

CatalogIdle ==
    /\ raw = GoodRaw
    /\ max_days_to_expiry = NullInt
    /\ parsed = <<>>
    /\ page_size = 1
    /\ max_markets = NullInt
    /\ all_markets = <<>>
    /\ catalog_offset = 0

----------------------------------------------------------------------------
(* Specifications *)

\* what a call of one part of the program leaves alone
calc_frame ==
    <<side_vars, dq_vars, now, parse_vars, market_vars, backtest_vars,
      paging_vars,
      recon_vars,
      scan_vars,
      enrich_vars,
      catalog_vars>>
side_frame ==
    <<calc_vars, dq_vars, now, parse_vars, market_vars, backtest_vars,
      paging_vars,
      recon_vars,
      scan_vars,
      enrich_vars,
      catalog_vars>>
dq_frame ==
    <<calc_vars, side_vars, now, parse_vars, market_vars, backtest_vars,
      paging_vars,
      recon_vars,
      scan_vars,
      enrich_vars,
      catalog_vars>>
parse_frame ==
    <<calc_vars, side_vars, dq_vars, market_vars, backtest_vars, paging_vars,
      recon_vars,
      scan_vars,
      enrich_vars,
      catalog_vars>>
store_frame == <<calc_vars, side_vars, dq_vars, parse_vars, paging_vars,
      recon_vars,
      scan_vars,
      enrich_vars,
      catalog_vars>>
paging_frame ==
    <<calc_vars, side_vars, dq_vars, now, parse_vars, market_vars,
      backtest_vars,
      recon_vars,
      scan_vars,
      enrich_vars,
      catalog_vars>>

InitFlag ==
    /\ CatalogIdle
    /\ EnrichIdle
    /\ ScanIdle
    /\ ReconIdle
    /\ pc = "start"
    /\ threshold \in Thresholds
    /\ yes_analysis \in SideInputs
    /\ no_analysis \in SideInputs
    /\ imbalance = NoImbalance
    /\ now = 0
    /\ SideIdle /\ DqIdle /\ ParseIdle
    /\ MarketsIdle /\ BacktestIdle /\ PagingIdle

CalculateImbalance ==
    /\ pc = "start"
    /\ pc' = "done"
    /\ imbalance' = calculate_imbalance(yes_analysis, no_analysis, threshold)
    /\ UNCHANGED <<threshold, yes_analysis, no_analysis, calc_frame>>

NextFlag == CalculateImbalance

SpecFlag == InitFlag /\ [][NextFlag]_vars

InitSide ==
    /\ CatalogIdle
    /\ EnrichIdle
    /\ ScanIdle
    /\ ReconIdle
    /\ pc = "start"
    /\ holders \in HolderLists
    /\ analysis = <<>>
    /\ now = 0
    /\ CalcIdle /\ DqIdle /\ ParseIdle
    /\ MarketsIdle /\ BacktestIdle /\ PagingIdle

AnalyzeSide ==
    /\ pc = "start"
    /\ pc' = "done"
    /\ \E side_name \in {"YES", "NO"} :
           analysis' = analyze_side(holders, side_name)
    /\ UNCHANGED <<holders, side_frame>>

NextSide == AnalyzeSide

SpecSide == InitSide /\ [][NextSide]_vars

InitQuality ==
    /\ CatalogIdle
    /\ EnrichIdle
    /\ ScanIdle
    /\ ReconIdle
    /\ pc = "start"
    /\ dq_args \in DqArgs
    /\ dq_score = None
    /\ dq_prev = <<>>
    /\ now = 0
    /\ CalcIdle /\ SideIdle /\ ParseIdle
    /\ MarketsIdle /\ BacktestIdle /\ PagingIdle

\* the first call
CalculateDataQuality ==
    /\ pc = "start"
    /\ pc' = "called"
    /\ dq_score' = data_quality_of(dq_args)
    /\ UNCHANGED <<dq_args, dq_prev, dq_frame>>

\* a second call that differs from the first in known_count only
CalculateDataQualityAgain ==
    /\ pc = "called"
    /\ pc' = "done"
    /\ dq_prev' = [args |-> dq_args, score |-> dq_score]
    /\ \E k \in 0..dq_args.total_analyzed :
           /\ dq_args' = [dq_args EXCEPT !.known_count = k]
           /\ dq_score' = data_quality_of(dq_args')
    /\ UNCHANGED dq_frame

NextQuality == CalculateDataQuality \/ CalculateDataQualityAgain

SpecQuality == InitQuality /\ [][NextQuality]_vars

InitParse ==
    /\ CatalogIdle
    /\ EnrichIdle
    /\ ScanIdle
    /\ ReconIdle
    /\ pc = "start"
    /\ now = MaxTime + 1
    /\ market_data \in MarketData
    /\ resolution = Unresolved
    /\ CalcIdle /\ SideIdle /\ DqIdle
    /\ MarketsIdle /\ BacktestIdle /\ PagingIdle

ParseResolution ==
    /\ pc = "start"
    /\ pc' = "done"
    /\ resolution' = parse_resolution(market_data, now)
    /\ UNCHANGED <<now, market_data, parse_frame>>

NextParse == ParseResolution

SpecParse == InitParse /\ [][NextParse]_vars

\* The scan's upserts of catalog records into an empty markets table
InitMarkets ==
    /\ CatalogIdle
    /\ EnrichIdle
    /\ ScanIdle
    /\ ReconIdle
    /\ pc = "start"
    /\ now = 0
    /\ MarketsIdle /\ BacktestIdle
    /\ CalcIdle /\ SideIdle /\ DqIdle /\ ParseIdle /\ PagingIdle

\* repo.upsert_market(market) for a catalog record fetched at or before now
UpsertMarket ==
    /\ mk_call.n < MaxCalls
    /\ \E m \in MarketIds, i \in Versions, d \in Versions, t \in 0..now :
           LET market == ActiveMarket(m, i, d, t)
           IN  /\ markets' = upsert_market(markets, market, now)
               /\ mk_call' = [n |-> mk_call.n + 1, market |-> market,
                              at |-> now]
    /\ UNCHANGED <<pc, now, backtest_vars, store_frame>>

\* a second passes
Tick ==
    /\ now < MaxTime
    /\ now' = now + 1
    /\ UNCHANGED <<pc, market_vars, backtest_vars, store_frame>>

NextMarkets == UpsertMarket \/ Tick

SpecMarkets == InitMarkets /\ [][NextMarkets]_vars

\* Backtest snapshots of markets the scan has stored
InitBacktest ==
    /\ CatalogIdle
    /\ EnrichIdle
    /\ ScanIdle
    /\ ReconIdle
    /\ pc = "start"
    /\ now = MaxTime + 1
    /\ markets = UNION {upsert_market({}, ActiveMarket(id, 1, 1, 0), 0) :
                            id \in MarketIds}
    /\ mk_call = NoUpsert
    /\ BacktestIdle
    /\ CalcIdle /\ SideIdle /\ DqIdle /\ ParseIdle /\ PagingIdle

\* repo.create_backtest_snapshot(market_id, ...)
CreateBacktestSnapshot ==
    /\ bt_call.n < MaxCalls
    /\ \E market_id \in MarketIds, a \in SnapshotArgs :
           LET existing == existing_snapshot(backtest_snapshots, market_id)
           IN  IF existing # {}
               THEN /\ bt_call' = [n |-> bt_call.n + 1, op |-> "create",
                                   market_id |-> market_id, args |-> a,
                                   resolved_outcome |-> "None",
                                   resolved_at |-> NoTime,
                                   ret |-> first_row(existing).id]
                    /\ UNCHANGED <<backtest_snapshots, snapshot_seq>>
               ELSE /\ snapshot_seq' = snapshot_seq + 1
                    /\ backtest_snapshots' =
                           backtest_snapshots
                           \cup {new_snapshot(snapshot_seq', market_id, a)}
                    /\ bt_call' = [n |-> bt_call.n + 1, op |-> "create",
                                   market_id |-> market_id, args |-> a,
                                   resolved_outcome |-> "None",
                                   resolved_at |-> NoTime,
                                   ret |-> snapshot_seq']
    /\ UNCHANGED <<pc, now, markets, mk_call, store_frame>>

\* repo.update_backtest_resolution(market_id, resolved_outcome, resolved_at)
UpdateBacktestResolution ==
    /\ bt_call.n < MaxCalls
    /\ \E market_id \in MarketIds, resolved_outcome \in {"YES", "NO"},
          resolved_at \in ResolvedTimes :
           /\ backtest_snapshots' =
                  resolve_snapshots(backtest_snapshots, market_id,
                                    resolved_outcome, resolved_at)
           /\ markets' =
                  resolve_markets(markets, backtest_snapshots, market_id,
                                  resolved_outcome, resolved_at)
           /\ bt_call' = [NoCall EXCEPT !.n = bt_call.n + 1, !.op = "update",
                                        !.market_id = market_id,
                                        !.resolved_outcome = resolved_outcome,
                                        !.resolved_at = resolved_at]
    /\ UNCHANGED <<pc, now, mk_call, snapshot_seq, store_frame>>

NextBacktest == CreateBacktestSnapshot \/ UpdateBacktestResolution

SpecBacktest == InitBacktest /\ [][NextBacktest]_vars

\* fetch_recent_closed_markets(session, target_ids, max_pages)
InitPaging ==
    /\ CatalogIdle
    /\ EnrichIdle
    /\ ScanIdle
    /\ ReconIdle
    /\ pc = "loop"
    /\ target_ids \in SUBSET MarketIds
    /\ closed_markets = <<>>
    /\ offset = 0
    /\ found_count = 0
    /\ page = 0
    /\ batch = <<>>
    /\ requests = <<>>
    /\ now = 0
    /\ CalcIdle /\ SideIdle /\ DqIdle /\ ParseIdle
    /\ MarketsIdle /\ BacktestIdle

\* One iteration of the loop over pages: the listing answers 200 with a
\* batch, and the loop stores it and decides whether to go on
FetchPage ==
    /\ pc = "loop"
    /\ \E b \in Batches :
           LET fc == found_count + CountTargets(b, target_ids, Len(b))
               stop == \/ b = <<>>
                       \/ fc >= Cardinality(target_ids)
                       \/ past_targets(b, target_ids)
                       \/ Len(b) < resolve_BATCH_SIZE
           IN  /\ requests' = Append(requests, Request(offset, 200))
               /\ batch' = b
               /\ closed_markets' = StoreBatch(closed_markets, b, Len(b))
               /\ found_count' = fc
               /\ IF stop
                  THEN pc' = "done" /\ UNCHANGED <<offset, page>>
                  ELSE /\ offset' = offset + resolve_BATCH_SIZE
                       /\ IF page + 1 < max_pages
                          THEN pc' = "loop" /\ page' = page + 1
                          ELSE pc' = "done" /\ page' = page
    /\ UNCHANGED <<target_ids, paging_frame>>

\* The listing answers 429: fetch_closed_markets_batch sleeps and sends the
\* same request again
RateLimited ==
    /\ pc = "loop"
    /\ Len(requests) - page < MaxRetries
    /\ requests' = Append(requests, Request(offset, 429))
    /\ UNCHANGED <<pc, target_ids, closed_markets, offset, found_count, page,
                   batch, paging_frame>>

\* The listing answers another status or the request fails:
\* fetch_closed_markets_batch returns [] and the loop ends
FetchFailed ==
    /\ pc = "loop"
    /\ requests' = Append(requests, Request(offset, 500))
    /\ batch' = <<>>
    /\ pc' = "done"
    /\ UNCHANGED <<target_ids, closed_markets, offset, found_count, page,
                   paging_frame>>

NextPaging == FetchPage \/ RateLimited \/ FetchFailed

SpecPaging == InitPaging /\ [][NextPaging]_vars

recon_frame ==
    <<calc_vars, side_vars, dq_vars, parse_vars, paging_vars, scan_vars,
      enrich_vars, catalog_vars>>

\* Reconciliation runs, one after the other, over a store that holds
\* unresolved snapshots of some markets and market rows of some markets
InitReconcile ==
    /\ CatalogIdle
    /\ EnrichIdle
    /\ ScanIdle
    /\ pc = "start"
    /\ now = MaxTime + 1
    /\ \E flagged \in SUBSET MarketIds :
           \E a \in [flagged -> SnapshotArgs] :
               backtest_snapshots =
                   {new_snapshot(id, id, a[id]) : id \in flagged}
    /\ snapshot_seq = MaxMarkets
    /\ \E stored \in SUBSET MarketIds :
           markets = UNION {upsert_market({}, ActiveMarket(id, 1, 1, 0), 0) :
                               id \in stored}
    /\ mk_call = NoUpsert
    /\ bt_call = NoCall
    /\ ReconIdle
    /\ CalcIdle /\ SideIdle /\ DqIdle /\ ParseIdle /\ PagingIdle

\* main up to the end of the bulk fetch: it returns when nothing is
\* unresolved and otherwise goes on to step 2 with the targets
StartReconcile ==
    /\ pc = "start"
    /\ LET unresolved ==
               get_unresolved_flagged_markets(backtest_snapshots, markets)
       IN  IF unresolved = {}
           THEN UNCHANGED <<pc, recon_vars>>
           ELSE /\ unresolved_ids' = unresolved
                /\ todo' = unresolved
                /\ not_found' = {}
                /\ bulk_parsed' = {}
                /\ id_requests' = NoRequests
                /\ run_writes' = NoRequests
                /\ pc' = "bulk"
    /\ UNCHANGED <<now, market_vars, backtest_vars, recon_frame>>

\* what main does with a target once it holds the target's record: nothing
\* when parse_resolution finds no outcome, update_backtest_resolution when
\* it finds one; the run dies when parse_resolution raises
Resolve(market_id, md, next_pc, next_todo) ==
    LET res == parse_resolution(md, now)
    IN  IF res.raised
        THEN /\ pc' = "died"
             /\ UNCHANGED <<todo, run_writes, market_vars, backtest_vars>>
        ELSE /\ pc' = next_pc
             /\ todo' = next_todo
             /\ IF res.resolved_outcome = "None"
                THEN UNCHANGED <<run_writes, market_vars, backtest_vars>>
                ELSE /\ backtest_snapshots' =
                            resolve_snapshots(backtest_snapshots, market_id,
                                              res.resolved_outcome,
                                              res.resolved_at)
                     /\ markets' =
                            resolve_markets(markets, backtest_snapshots,
                                            market_id, res.resolved_outcome,
                                            res.resolved_at)
                     /\ bt_call' =
                            [NoCall EXCEPT !.n = bt_call.n + 1,
                                           !.op = "update",
                                           !.market_id = market_id,
                                           !.resolved_outcome =
                                               res.resolved_outcome,
                                           !.resolved_at = res.resolved_at]
                     /\ run_writes' =
                            [run_writes EXCEPT ![market_id] = @ + 1]
                     /\ UNCHANGED <<mk_call, snapshot_seq>>

\* where main stands after a target of step 2
AfterBulk(left, missing) ==
    IF left # {} THEN "bulk" ELSE IF missing # {} THEN "fallback" ELSE "end"

\* Step 2, one target: the bulk result holds a record of it or does not
\* (the bulk result is whatever the listing returned: see SpecPaging)
CheckTarget ==
    /\ pc = "bulk"
    /\ \E market_id \in todo :
           LET left == todo \ {market_id}
           IN  \/ /\ bulk_parsed' = bulk_parsed \cup {market_id}
                  /\ \E md \in FeedRecords :
                         Resolve(market_id, md, AfterBulk(left, not_found),
                                 IF left = {} THEN not_found ELSE left)
                  /\ UNCHANGED not_found
               \/ LET missing == not_found \cup {market_id}
                  IN  /\ pc' = AfterBulk(left, missing)
                      /\ todo' = IF left = {} THEN missing ELSE left
                      /\ not_found' = missing
                      /\ UNCHANGED <<bulk_parsed, run_writes, market_vars,
                                     backtest_vars>>
    /\ UNCHANGED <<unresolved_ids, id_requests, now, recon_frame>>

\* Step 3, one target of not_found: fetch_market_by_id is called and
\* returns the record or None
FallbackTarget ==
    /\ pc = "fallback"
    /\ \E market_id \in todo :
           LET left == todo \ {market_id}
               next_pc == IF left = {} THEN "end" ELSE "fallback"
           IN  /\ id_requests' = [id_requests EXCEPT ![market_id] = @ + 1]
               /\ \/ \E md \in FeedRecords :
                         Resolve(market_id, md, next_pc, left)
                  \/ /\ pc' = next_pc
                     /\ todo' = left
                     /\ UNCHANGED <<run_writes, market_vars, backtest_vars>>
    /\ UNCHANGED <<unresolved_ids, not_found, bulk_parsed, now, recon_frame>>

\* main has returned or died: the next scheduled run starts afresh
Return ==
    /\ pc \in {"end", "died"}
    /\ pc' = "start"
    /\ unresolved_ids' = {} /\ todo' = {} /\ not_found' = {}
    /\ bulk_parsed' = {}
    /\ id_requests' = NoRequests
    /\ run_writes' = NoRequests
    /\ UNCHANGED <<now, market_vars, backtest_vars, recon_frame>>

NextReconcile == StartReconcile \/ CheckTarget \/ FallbackTarget \/ Return

SpecReconcile == InitReconcile /\ [][NextReconcile]_vars

scan_frame ==
    <<calc_vars, side_vars, dq_vars, parse_vars, backtest_vars, paging_vars,
      recon_vars,
      enrich_vars,
      catalog_vars>>

\* One execution of run_scan on an empty store
InitScan ==
    /\ CatalogIdle
    /\ EnrichIdle
    /\ pc = "start"
    /\ now = 1
    /\ ScanIdle
    /\ MarketsIdle /\ BacktestIdle
    /\ CalcIdle /\ SideIdle /\ DqIdle /\ ParseIdle /\ PagingIdle /\ ReconIdle

\* run_scan's except block, entered from a call of the given kind that
\* raised when scan_sessions held the given rows: complete_session with
\* status failed, then raise
ScanFailed(kind, sessions) ==
    /\ scan_sessions' =
           complete_session(sessions, session_id, scanned_count,
                            flagged_count, "failed", now)
    /\ faults' = faults \cup {kind}
    /\ raised' = TRUE
    /\ pc' = "done"

\* repo.create_session()
CreateSession ==
    /\ pc = "start"
    /\ session_id' = Cardinality(scan_sessions) + 1
    /\ scan_sessions' = scan_sessions \cup {new_session(session_id', now)}
    /\ pc' = "catalog"
    /\ UNCHANGED <<scan_results, scanned_count, flagged_count, scan_markets,
                   batch_start, batch_results, batch_pos, faults, raised,
                   enrich_requests>>
    /\ UNCHANGED <<now, market_vars, scan_frame>>

\* [m for m in markets if m.liquidity >= min_liquidity], as the list of
\* the market ids
liquid_markets(catalog) ==
    LET liquid == SelectSeq(catalog,
                            LAMBDA m : m.liquidity >= MIN_LIQUIDITY)
    IN  [k \in 1..Len(liquid) |-> liquid[k].market_id]

\* Step 1: the catalog fetch, the liquidity filter and the write of
\* total_markets; with no market left run_scan completes the session and
\* returns
FetchCatalog ==
    /\ pc = "catalog"
    /\ \E catalog \in Catalogs :
           LET filtered == liquid_markets(catalog)
               counted == set_total_markets(scan_sessions, session_id,
                                            Len(filtered))
           IN  /\ scan_markets' = filtered
               /\ IF Len(filtered) = 0
                  THEN /\ scan_sessions' =
                              complete_session(counted, session_id, 0, 0,
                                               "completed", now)
                       /\ pc' = "done"
                  ELSE /\ scan_sessions' = counted
                       /\ pc' = "batch"
    /\ UNCHANGED <<scan_results, session_id, scanned_count, flagged_count,
                   batch_start, batch_results, batch_pos, faults, raised,
                   enrich_requests>>
    /\ UNCHANGED <<now, market_vars, scan_frame>>

\* Step 1 raises (the fetcher's session cannot be set up, the store rejects
\* the write of total_markets)
CatalogFails ==
    /\ pc = "catalog"
    /\ ScanFailed("catalog", scan_sessions)
    /\ UNCHANGED <<scan_results, session_id, scanned_count, flagged_count,
                   scan_markets, batch_start, batch_results, batch_pos,
                   enrich_requests>>
    /\ UNCHANGED <<now, market_vars, scan_frame>>

\* A variant of the slice that takes every market from i on
scan_batch_rest == SubSeq(scan_markets, batch_start + 1, Len(scan_markets))

\* markets[i : i + BATCH_SIZE]
scan_batch ==
    SubSeq(scan_markets, batch_start + 1,
           IF batch_start + scan_BATCH_SIZE < Len(scan_markets)
           THEN batch_start + scan_BATCH_SIZE ELSE Len(scan_markets))

\* the holder fetches of the batch that have not settled
in_flight ==
    {k \in 1..Len(batch_results) : batch_results[k].kind = "pending"}

\* asyncio.gather(*tasks, return_exceptions=True) starts one
\* fetch_market_holders task per market of the batch
DispatchHolders ==
    /\ pc = "batch"
    /\ batch_results' = [k \in 1..Len(scan_batch) |-> Pending]
    /\ pc' = "fetching"
    /\ UNCHANGED <<scan_sessions, scan_results, session_id, scanned_count,
                   flagged_count, scan_markets, batch_start, batch_pos,
                   faults, raised, enrich_requests>>
    /\ UNCHANGED <<now, market_vars, scan_frame>>

\* one holder fetch of the batch settles, with its lists or its exception
HolderSettles ==
    /\ pc = "fetching"
    /\ \E k \in in_flight, result \in HolderResults :
           batch_results' = [batch_results EXCEPT ![k] = result]
    /\ UNCHANGED <<pc, scan_sessions, scan_results, session_id,
                   scanned_count, flagged_count, scan_markets, batch_start,
                   batch_pos, faults, raised, enrich_requests>>
    /\ UNCHANGED <<now, market_vars, scan_frame>>

\* every fetch has settled: gather returns batch_results and the loop over
\* zip(batch, batch_results) starts
GatherHolders ==
    /\ pc = "fetching"
    /\ in_flight = {}
    /\ faults' = IF \E k \in 1..Len(batch_results) :
                        batch_results[k].kind = "error"
                 THEN faults \cup {"holders"} ELSE faults
    /\ batch_pos' = 1
    /\ pc' = "market"
    /\ UNCHANGED <<scan_sessions, scan_results, session_id, scanned_count,
                   flagged_count, scan_markets, batch_start, batch_results,
                   raised, enrich_requests>>
    /\ UNCHANGED <<now, market_vars, scan_frame>>

\* the loop over zip(batch, batch_results) moves to the next market, or to
\* the progress update after the last one
NextMarket ==
    /\ batch_pos' = batch_pos + 1
    /\ pc' = IF batch_pos = Len(batch_results) THEN "progress" ELSE "market"

\* One market of the batch: skipped on an exception or too few holders,
\* otherwise enriched, scored and stored; a raise while scoring or storing
\* leaves the loop for the except block
ProcessMarket ==
    /\ pc = "market"
    /\ LET result == batch_results[batch_pos]
           market == ActiveMarket(scan_batch[batch_pos], 1, 1, now)
       IN  IF is_exception(result)
           THEN /\ NextMarket
                /\ UNCHANGED <<scan_sessions, scan_results, scanned_count,
                               flagged_count, faults, raised, market_vars,
                               enrich_requests>>
           ELSE IF result.kind = "error"
           THEN \* yes_holders, no_holders = result raises TypeError
                /\ ScanFailed("holders", scan_sessions)
                /\ UNCHANGED <<scan_results, scanned_count, flagged_count,
                               batch_pos, market_vars, enrich_requests>>
           ELSE IF insufficient_holders(result)
           THEN /\ NextMarket
                /\ UNCHANGED <<scan_sessions, scan_results, scanned_count,
                               flagged_count, faults, raised, market_vars,
                               enrich_requests>>
           ELSE \E yes_pnl \in EnrichedPnls, no_pnl \in EnrichedPnls :
                LET scan_result ==
                        create_scan_result(market.market_id,
                                           enriched(result.yes, yes_pnl),
                                           enriched(result.no, no_pnl),
                                           IMBALANCE_THRESHOLD)
                    upserted == upsert_market(markets, market, now)
                    upsert_call == [n |-> mk_call.n + 1, market |-> market,
                                    at |-> now]
                IN  /\ enrich_requests' = enrich_requests + 2
                    /\ \/ /\ ScanFailed("scoring", scan_sessions)
                          /\ UNCHANGED <<scan_results, scanned_count,
                                         flagged_count, batch_pos,
                                         market_vars>>
                       \/ /\ ScanFailed("persisting", scan_sessions)
                          /\ UNCHANGED <<scan_results, scanned_count,
                                         flagged_count, batch_pos,
                                         market_vars>>
                       \/ /\ ScanFailed("persisting", scan_sessions)
                          /\ markets' = upserted
                          /\ mk_call' = upsert_call
                          /\ UNCHANGED <<scan_results, scanned_count,
                                         flagged_count, batch_pos>>
                       \/ /\ markets' = upserted
                          /\ mk_call' = upsert_call
                          /\ scan_results' =
                                 scan_results
                                 \cup {scan_result_row(
                                           Cardinality(scan_results) + 1,
                                           session_id, scan_result, now)}
                          /\ scanned_count' = scanned_count + 1
                          /\ flagged_count' =
                                 IF scan_result.is_flagged
                                 THEN flagged_count + 1 ELSE flagged_count
                          /\ faults' =
                                 IF yes_pnl[1] = None \/ no_pnl[1] = None
                                 THEN faults \cup {"enrich"} ELSE faults
                          /\ NextMarket
                          /\ UNCHANGED <<scan_sessions, raised>>
    /\ UNCHANGED <<session_id, scan_markets, batch_start, batch_results>>
    /\ UNCHANGED <<now, scan_frame>>

\* repo.update_session_progress after a batch, then the next batch or the
\* end of the loop
UpdateProgress ==
    /\ pc = "progress"
    /\ \/ /\ scan_sessions' =
                 update_session_progress(scan_sessions, session_id,
                                         scanned_count, flagged_count)
          /\ IF batch_start + scan_BATCH_SIZE < Len(scan_markets)
             THEN /\ batch_start' = batch_start + scan_BATCH_SIZE
                  /\ pc' = "batch"
             ELSE /\ pc' = "complete"
                  /\ UNCHANGED batch_start
          /\ UNCHANGED <<faults, raised>>
       \/ /\ ScanFailed("progress", scan_sessions)
          /\ UNCHANGED batch_start
    /\ UNCHANGED <<scan_results, session_id, scanned_count, flagged_count,
                   scan_markets, batch_results, batch_pos, enrich_requests>>
    /\ UNCHANGED <<now, market_vars, scan_frame>>

\* repo.complete_session(session_id, scanned_count, flagged_count) after
\* the loop
CompleteSession ==
    /\ pc = "complete"
    /\ scan_sessions' =
           complete_session(scan_sessions, session_id, scanned_count,
                            flagged_count, "completed", now)
    /\ pc' = "summary"
    /\ UNCHANGED <<scan_results, session_id, scanned_count, flagged_count,
                   scan_markets, batch_start, batch_results, batch_pos,
                   faults, raised, enrich_requests>>
    /\ UNCHANGED <<now, market_vars, scan_frame>>

\* the summary is printed
PrintSummary ==
    /\ pc = "summary"
    /\ pc' = "done"
    /\ UNCHANGED <<scan_vars, now, market_vars, scan_frame>>

\* a print of the summary raises (standard output is gone): the try block
\* is still open, so the except block runs
PrintSummaryFails ==
    /\ pc = "summary"
    /\ ScanFailed("summary", scan_sessions)
    /\ UNCHANGED <<scan_results, session_id, scanned_count, flagged_count,
                   scan_markets, batch_start, batch_results, batch_pos,
                   enrich_requests>>
    /\ UNCHANGED <<now, market_vars, scan_frame>>

NextScan ==
    \/ CreateSession
    \/ FetchCatalog
    \/ CatalogFails
    \/ DispatchHolders
    \/ HolderSettles
    \/ GatherHolders
    \/ ProcessMarket
    \/ UpdateProgress
    \/ CompleteSession
    \/ PrintSummary
    \/ PrintSummaryFails

SpecScan == InitScan /\ [][NextScan]_vars

enrich_frame ==
    <<calc_vars, side_vars, dq_vars, now, parse_vars, market_vars,
      backtest_vars, paging_vars, recon_vars, scan_vars,
      catalog_vars>>

\* A LeaderboardFetcher just constructed
InitEnrich ==
    /\ CatalogIdle
    /\ pc = "idle"
    /\ now = NoTime
    /\ EnrichIdle
    /\ CalcIdle /\ SideIdle /\ DqIdle /\ ParseIdle /\ MarketsIdle
    /\ BacktestIdle /\ PagingIdle /\ ReconIdle /\ ScanIdle

\* holders[i : i + batch_size]
enrich_batch ==
    SubSeq(enrich_holders, enrich_start + 1,
           IF enrich_start + enrich_batch_size < Len(enrich_holders)
           THEN enrich_start + enrich_batch_size ELSE Len(enrich_holders))

\* enrich_holders_with_pnl is called with a list of holders
Enrich(hs) ==
    /\ pc = "idle"
    /\ enrich_calls < MaxEnrichCalls
    /\ enrich_calls' = enrich_calls + 1
    /\ enrich_holders' = hs
    /\ enrich_start' = 0
    /\ enrich_tasks' = <<>>
    /\ pc' = "dispatch"
    /\ UNCHANGED <<pnl_cache, enrich_frame>>

\* asyncio.gather starts one calculate_wallet_pnl task per holder of the
\* batch; the event loop runs each new task, in order, up to its first
\* await, so every task tests the cache before any response is handled
Dispatch ==
    /\ pc = "dispatch"
    /\ enrich_tasks' =
           [k \in 1..Len(enrich_batch) |->
               task_started(pnl_cache, enrich_batch[k].wallet_address)]
    /\ pc' = "gather"
    /\ UNCHANGED <<pnl_cache, enrich_holders, enrich_start, enrich_calls,
                   enrich_frame>>

\* the positions request of task k ends and the task runs to its return
Respond(k) ==
    /\ pc = "gather"
    /\ enrich_tasks[k].pc = "awaiting"
    /\ \E response \in PositionsResponses :
           LET positions == fetch_wallet_positions(response)
               result == pnl_of_positions(positions)
               key == lower(enrich_tasks[k].wallet_address)
           IN  /\ enrich_tasks' =
                      [enrich_tasks EXCEPT ![k].pc = "done",
                                           ![k].positions = positions,
                                           ![k].result = result]
               /\ pnl_cache' =
                      IF result.kind = "pnl"
                      THEN cache_put(pnl_cache, key, result.pnl)
                      ELSE pnl_cache
    /\ UNCHANGED <<pc, enrich_holders, enrich_start, enrich_calls,
                   enrich_frame>>

\* gather returns: the loop over zip(batch, results), then the next batch
\* or the return
Collect ==
    /\ pc = "gather"
    /\ \A k \in 1..Len(enrich_tasks) : enrich_tasks[k].pc = "done"
    /\ enrich_holders' =
           [i \in 1..Len(enrich_holders) |->
               IF i > enrich_start /\ i <= enrich_start + Len(enrich_tasks)
               THEN holder_with_pnl(enrich_holders[i],
                                    enrich_tasks[i - enrich_start].result)
               ELSE enrich_holders[i]]
    /\ IF enrich_start + enrich_batch_size < Len(enrich_holders)
       THEN /\ enrich_start' = enrich_start + enrich_batch_size
            /\ pc' = "dispatch"
       ELSE /\ pc' = "idle"
            /\ UNCHANGED enrich_start
    /\ UNCHANGED <<pnl_cache, enrich_tasks, enrich_calls, enrich_frame>>

NextEnrich ==
    \/ \E hs \in EnrichLists : Enrich(hs)
    \/ Dispatch
    \/ \E k \in 1..Len(enrich_tasks) : Respond(k)
    \/ Collect

SpecEnrich == InitEnrich /\ [][NextEnrich]_vars

catalog_frame ==
    <<calc_vars, side_vars, dq_vars, parse_vars, market_vars, backtest_vars,
      paging_vars, recon_vars, scan_vars, enrich_vars>>

\* A call of parse_market on any raw record
InitParseMarket ==
    /\ pc = "start"
    /\ now = ParseClock
    /\ raw \in RawMarkets
    /\ max_days_to_expiry \in MaxDays
    /\ parsed = <<>>
    /\ page_size = 1 /\ max_markets = NullInt /\ all_markets = <<>>
    /\ catalog_offset = 0
    /\ CalcIdle /\ SideIdle /\ DqIdle /\ ParseIdle /\ MarketsIdle
    /\ BacktestIdle /\ PagingIdle /\ ReconIdle /\ ScanIdle /\ EnrichIdle

ParseMarket ==
    /\ pc = "start"
    /\ parsed' = parse_market(raw, now, max_days_to_expiry)
    /\ pc' = "done"
    /\ UNCHANGED <<raw, max_days_to_expiry, page_size, max_markets,
                   all_markets, catalog_offset, now, catalog_frame>>

NextParseMarket == ParseMarket

SpecParseMarket == InitParseMarket /\ [][NextParseMarket]_vars

\* A call of fetch_all_active_markets
InitCatalog ==
    /\ pc = "loop"
    /\ now = ParseClock
    /\ raw = GoodRaw /\ max_days_to_expiry = NullInt /\ parsed = <<>>
    /\ page_size \in 1..MaxPageSize
    /\ max_markets \in {NullInt} \cup 0..MaxLimit
    /\ all_markets = <<>>
    /\ catalog_offset = 0
    /\ CalcIdle /\ SideIdle /\ DqIdle /\ ParseIdle /\ MarketsIdle
    /\ BacktestIdle /\ PagingIdle /\ ReconIdle /\ ScanIdle /\ EnrichIdle

\* One pass of the while loop that gets a page with records: parse and
\* append, stop on a short page, else cut to max_markets and stop when the
\* limit is reached, else move the offset on
FetchMarketsPage ==
    /\ pc = "loop"
    /\ \E raw_markets \in Pages(page_size) :
           /\ raw_markets # <<>>
           /\ catalog_offset + Len(raw_markets) <= MaxFeed
           /\ LET appended ==
                      all_markets
                      \o parse_page(raw_markets, now, max_days_to_expiry)
              IN  IF Len(raw_markets) < page_size
                  THEN /\ all_markets' = appended
                       /\ pc' = "done"
                       /\ UNCHANGED catalog_offset
                  ELSE IF limit_given(max_markets)
                          /\ Len(appended) >= max_markets
                  THEN /\ all_markets' = SubSeq(appended, 1, max_markets)
                       /\ pc' = "done"
                       /\ UNCHANGED catalog_offset
                  ELSE /\ all_markets' = appended
                       /\ catalog_offset' = catalog_offset + page_size
                       /\ UNCHANGED pc
    /\ UNCHANGED <<raw, max_days_to_expiry, parsed, page_size, max_markets,
                   now, catalog_frame>>

\* A pass that gets no record (the listing has ended, or the request
\* failed or was answered with another status than 200): the loop ends
FetchNoMarkets ==
    /\ pc = "loop"
    /\ pc' = "done"
    /\ UNCHANGED <<catalog_vars, now, catalog_frame>>

NextCatalog == FetchMarketsPage \/ FetchNoMarkets

SpecCatalog == InitCatalog /\ [][NextCatalog]_vars

----------------------------------------------------------------------------
(* Properties *)

\* The average cash PNL of a side as calculate_imbalance reads it
Avg0(a) == IF IsNone(a.avg_overall_pnl) THEN R(0) ELSE a.avg_overall_pnl

\* The four flag conditions of the specification, for the side own
FourHold(own, other, thr) ==
    /\ RLe(thr, own.profitable_pct)
    /\ RLt(other.profitable_pct, own.profitable_pct)
    /\ RLt(R(0), Avg0(own))
    /\ RLt(Avg0(other), Avg0(own))

\* C1: the condition of the YES branch and the condition of the NO branch
\* never hold together, and the returned flagged_side is YES, NO or none,
\* none exactly when is_flagged is false.
C1_AtMostOneSide ==
    /\ ~(/\ yes_conditions(yes_analysis, no_analysis, threshold)
         /\ no_conditions(yes_analysis, no_analysis, threshold))
    /\ pc = "done" =>
        /\ imbalance.flagged_side \in {"YES", "NO", "None"}
        /\ (imbalance.flagged_side = "None") <=> ~imbalance.is_flagged

\* C1 witness: NO was flagged although YES also reaches the threshold with a
\* positive average PNL
C1_Witness ==
    /\ pc = "done"
    /\ imbalance.flagged_side = "NO"
    /\ RLe(threshold, yes_analysis.profitable_pct)
    /\ RLt(R(0), Avg0(yes_analysis))

ScoreExample(win, lose) ==
    /\ REq(win.profitable_pct, <<4, 5>>)
    /\ REq(lose.profitable_pct, <<11, 20>>)
    /\ REq(Avg0(win), R(60000))

ScoreExampleFlagged ==
    /\ pc = "done"
    /\ \/ imbalance.flagged_side = "YES" /\ ScoreExample(yes_analysis, no_analysis)
       \/ imbalance.flagged_side = "NO" /\ ScoreExample(no_analysis, yes_analysis)

\* C4 as stated: the score of the example is 92.5
C4_ScoreIs92_5 ==
    ScoreExampleFlagged => REq(imbalance.imbalance_score, <<185, 2>>)

\* C4 amended: for the example base is 80, diff_bonus 12.5 and pnl_bonus 10,
\* whose sum 102.5 is capped, so the score is 100.
C4_ScoreIs100 ==
    ScoreExampleFlagged =>
        /\ REq(score_base(<<4, 5>>), R(80))
        /\ REq(score_diff_bonus(<<4, 5>>, <<11, 20>>), <<25, 2>>)
        /\ score_pnl_bonus(R(60000)) = 10
        /\ REq(imbalance.imbalance_score, R(100))

\* C4 witness: the example was scored for a flagged NO side
C4_Witness ==
    /\ ScoreExampleFlagged
    /\ imbalance.flagged_side = "NO"
    /\ threshold = IMBALANCE_THRESHOLD

\* The score formula of the specification
ExpectedBonus(pnl) ==
    IF RLt(R(50000), pnl) THEN 10 ELSE IF RLt(R(10000), pnl) THEN 5 ELSE 0

ExpectedScore(win, lose) ==
    LET sum == RAdd(RAdd(RMulInt(win.profitable_pct, 100),
                         RMulInt(RSub(win.profitable_pct,
                                      lose.profitable_pct), 50)),
                    R(ExpectedBonus(Avg0(win))))
    IN  IF RLt(R(100), sum) THEN R(100) ELSE sum

\* The scenario: YES 7 profitable of 8 known with average 20000, NO 3
\* profitable of 8 known with average -2000
Scenario ==
    /\ yes_analysis = [profitable_pct |-> <<7, 8>>, avg_overall_pnl |-> R(20000)]
    /\ no_analysis = [profitable_pct |-> <<3, 8>>, avg_overall_pnl |-> R(-2000)]
    /\ threshold = IMBALANCE_THRESHOLD

C3_SideAnalysisCounts ==
    pc = "done" =>
        /\ analysis.top_n_count = Len(holders)
        /\ analysis.profitable_count + analysis.losing_count
               + analysis.unknown_count = analysis.top_n_count
        /\ RLe(R(0), analysis.profitable_pct)
        /\ RLe(analysis.profitable_pct, R(1))
        /\ RLe(R(0), analysis.unknown_pct)
        /\ RLe(analysis.unknown_pct, R(1))
        /\ (\A i \in 1..Len(holders) : IsNone(holders[i].overall_pnl)) =>
               REq(analysis.profitable_pct, R(0))

\* C3 witness: a list that mixes a profitable holder, a holder with a PNL of
\* exactly 0 and a holder of unknown PNL has been analysed
C3_Witness ==
    /\ pc = "done"
    /\ analysis.profitable_count > 0
    /\ analysis.unknown_count > 0
    /\ \E i \in 1..Len(holders) : holders[i].overall_pnl = R(0)

\* C6: the quality score lies in 0..100, and of two calls that differ only
\* in known_count the one with more known holders scores at least as much.
C6_DataQualityMonotone ==
    /\ pc \in {"called", "done"} =>
           RLe(R(0), dq_score) /\ RLe(dq_score, R(100))
    /\ (/\ pc = "done"
        /\ dq_prev.args.total_analyzed = dq_args.total_analyzed
        /\ dq_prev.args.avg_overall = dq_args.avg_overall
        /\ dq_prev.args.avg_realized = dq_args.avg_realized
        /\ dq_prev.args.known_count <= dq_args.known_count)
       => RLe(dq_prev.score, dq_score)

\* C6 witness: with 20 analysed holders the second call knows more holders
\* and scores strictly more
C6_Witness ==
    /\ pc = "done"
    /\ dq_args.total_analyzed = TOP_HOLDER_COUNT
    /\ dq_prev.args.known_count < dq_args.known_count
    /\ RLt(dq_prev.score, dq_score)

\* A closed record without a winningOutcome field whose outcomePrices hold
\* two prices that parse as numbers
ClosedWithTwoPrices ==
    /\ is_closed(market_data)
    /\ market_data.winningOutcome.kind = "none"
    /\ market_data.outcomePrices.kind \in {"list", "json"}
    /\ Len(market_data.outcomePrices.items) >= 2
    /\ market_data.outcomePrices.items[1] # BadPrice
    /\ market_data.outcomePrices.items[2] # BadPrice

\* C8: for a closed record without a winningOutcome field and with two
\* numeric outcome prices, parse_resolution returns YES (with a timestamp)
\* when the first price exceeds 0.95, NO when the first does not and the
\* second does, and (None, None) when neither does; a record that is not
\* closed, not resolved and has no closedTime always gives (None, None).
C8_ResolutionFromPrices ==
    pc = "done" =>
        /\ ClosedWithTwoPrices =>
            LET first == market_data.outcomePrices.items[1]
                second == market_data.outcomePrices.items[2]
            IN  /\ ~resolution.raised
                /\ first > 95 =>
                       /\ resolution.resolved_outcome = "YES"
                       /\ resolution.resolved_at # NoTime
                /\ (first <= 95 /\ second > 95) =>
                       /\ resolution.resolved_outcome = "NO"
                       /\ resolution.resolved_at # NoTime
                /\ (first <= 95 /\ second <= 95) => resolution = Unresolved
        /\ (/\ ~market_data.closed
            /\ ~market_data.resolved
            /\ market_data.closedTime.kind = "none") => resolution = Unresolved

\* C8 witness: a closed record with prices [0.97, 0.03] was parsed to YES
C8_Witness ==
    /\ pc = "done"
    /\ ClosedWithTwoPrices
    /\ market_data.outcomePrices.items = <<97, 3>>
    /\ resolution.resolved_outcome = "YES"

\* ---- create_backtest_snapshot (repository.py 665-696)

\* the step is a call of create_backtest_snapshot for a market that has a
\* snapshot already
CreateOnExisting ==
    /\ bt_call'.n = bt_call.n + 1
    /\ bt_call'.op = "create"
    /\ \E r \in backtest_snapshots : r.market_id = bt_call'.market_id

OneSnapshotPerMarket ==
    \A r, q \in backtest_snapshots : r.market_id = q.market_id => r = q

\* C7: a call of create_backtest_snapshot for a market id that has a
\* snapshot returns the id of that snapshot and leaves the table as it was,
\* whatever side, edge and price it is given; the table never holds two
\* snapshots of one market id.
C7_CreateSnapshotIdempotent ==
    [][/\ OneSnapshotPerMarket'
       /\ CreateOnExisting =>
              /\ backtest_snapshots' = backtest_snapshots
              /\ \E r \in backtest_snapshots :
                     /\ r.market_id = bt_call'.market_id
                     /\ r.id = bt_call'.ret]_vars

\* a second create for a market, with a side and a price other than the
\* stored ones, has returned
C7_Witness ==
    /\ bt_call.op = "create"
    /\ \E r \in backtest_snapshots :
           /\ r.market_id = bt_call.market_id
           /\ r.id = bt_call.ret
           /\ r.flagged_side # bt_call.args.flagged_side
           /\ r.price_at_flag # bt_call.args.price_at_flag
           /\ r.edge_pct # bt_call.args.edge_pct

\* ---- fetch_recent_closed_markets (resolve_markets.py 68-130)

\* the page has a numeric id below every target id
PageBelowTargets(b, targets) ==
    /\ targets # {}
    /\ \E i \in 1..Len(b) :
           b[i].id # NoId /\ \A t \in targets : b[i].id < t

\* C9: once the latest fetched page of closed markets has a minimum numeric
\* id below the minimum numeric target id, no request is sent to the
\* listing any more.
C9_StopsPastTargets ==
    [][Len(requests') > Len(requests) => ~PageBelowTargets(batch, target_ids)]_vars

\* paging has ended on a full page, before the last allowed page and with
\* targets still missing, because the page went below the targets
C9_Witness ==
    /\ pc = "done"
    /\ PageBelowTargets(batch, target_ids)
    /\ Len(batch) = resolve_BATCH_SIZE
    /\ found_count < Cardinality(target_ids)
    /\ page + 1 < max_pages

\* ---- upsert_market (repository.py 128-159)

\* the step is a call of upsert_market
IsUpsert == mk_call'.n = mk_call.n + 1

\* the row of the upserted market after the call
UpsertedRow == CHOOSE r \in markets' : r.market_id = mk_call'.market.market_id

OneRowPerMarket ==
    \A r, q \in markets : r.market_id = q.market_id => r = q

\* C10 as stated: after an upsert the market has one row and every field of
\* the row is the value the upsert carried.
C10_LastWriteWinsAllFields ==
    [][IsUpsert =>
          /\ OneRowPerMarket'
          /\ \E r \in markets' : r.market_id = mk_call'.market.market_id
          /\ UpsertedRow.condition_id = mk_call'.market.condition_id
          /\ UpsertedRow.question = mk_call'.market.question
          /\ UpsertedRow.slug = mk_call'.market.slug
          /\ UpsertedRow.token_id_yes = mk_call'.market.token_id_yes
          /\ UpsertedRow.token_id_no = mk_call'.market.token_id_no
          /\ UpsertedRow.end_date = mk_call'.market.end_date
          /\ UpsertedRow.category = mk_call'.market.category
          /\ UpsertedRow.first_seen_at = mk_call'.market.fetched_at]_vars

\* C10, amended: after an upsert the market has one row; question, slug,
\* end_date and category are the values the upsert carried; on a market
\* that had a row, condition_id, token_id_yes, token_id_no, first_seen_at
\* and the resolution stay as stored and last_scanned_at is the time of the
\* call; on a new market they are the values the upsert carried and
\* last_scanned_at is NULL.
C10_LastWriteWinsDescriptiveFields ==
    [][IsUpsert =>
          /\ OneRowPerMarket'
          /\ \E r \in markets' : r.market_id = mk_call'.market.market_id
          /\ UpsertedRow.question = mk_call'.market.question
          /\ UpsertedRow.slug = mk_call'.market.slug
          /\ UpsertedRow.end_date = mk_call'.market.end_date
          /\ UpsertedRow.category = mk_call'.market.category
          /\ \A old \in markets :
                 old.market_id = mk_call'.market.market_id =>
                     /\ UpsertedRow.condition_id = old.condition_id
                     /\ UpsertedRow.token_id_yes = old.token_id_yes
                     /\ UpsertedRow.token_id_no = old.token_id_no
                     /\ UpsertedRow.first_seen_at = old.first_seen_at
                     /\ UpsertedRow.resolved_outcome = old.resolved_outcome
                     /\ UpsertedRow.resolved_at = old.resolved_at
                     /\ UpsertedRow.last_scanned_at = now
          /\ (\A old \in markets :
                  old.market_id # mk_call'.market.market_id) =>
                     /\ UpsertedRow.condition_id = mk_call'.market.condition_id
                     /\ UpsertedRow.token_id_yes = mk_call'.market.token_id_yes
                     /\ UpsertedRow.token_id_no = mk_call'.market.token_id_no
                     /\ UpsertedRow.first_seen_at = mk_call'.market.fetched_at
                     /\ UpsertedRow.last_scanned_at = NoTime
          /\ \A r \in markets :
                 r.market_id # mk_call'.market.market_id => r \in markets']_vars

\* a market was upserted twice with differing data: its row carries the
\* question of the latest upsert and the condition id and first-seen time
\* of an earlier one
C10_Witness ==
    /\ mk_call.n >= 2
    /\ \E r \in markets :
           /\ r.market_id = mk_call.market.market_id
           /\ r.last_scanned_at = mk_call.at
           /\ r.question = mk_call.market.question
           /\ r.condition_id # mk_call.market.condition_id
           /\ r.first_seen_at # mk_call.market.fetched_at

\* ---- reconciliation runs (resolve_markets.py 221-295)

\* the step is a call of update_backtest_resolution
IsResolutionWrite == bt_call'.n = bt_call.n + 1 /\ bt_call'.op = "update"

\* C11: a snapshot with a recorded outcome is not among the targets of any
\* run that starts afterwards, no call of update_backtest_resolution is made
\* for its market, and its row stays as it is.
C11_ResolutionWrittenOnce ==
    [][\A r \in backtest_snapshots :
           r.resolved_outcome # "None" =>
               /\ r \in backtest_snapshots'
               /\ ~(IsResolutionWrite /\ bt_call'.market_id = r.market_id)
               /\ pc = "start" => r.market_id \notin unresolved_ids']_vars

\* a run is under way that started after a snapshot was resolved: the
\* resolved market is not among its targets, an unresolved one is
C11_Witness ==
    /\ pc \in {"bulk", "fallback"}
    /\ \E r, q \in backtest_snapshots :
           /\ r.resolved_outcome # "None"
           /\ r.market_id \notin unresolved_ids
           /\ q.resolved_outcome = "None"
           /\ q.market_id \in unresolved_ids

\* ---- update_backtest_resolution (repository.py 698-748)

\* the snapshot of the market of the latest call, before and after the step
SnapshotBefore ==
    CHOOSE r \in backtest_snapshots : r.market_id = bt_call'.market_id
SnapshotAfter ==
    CHOOSE r \in backtest_snapshots' : r.market_id = bt_call'.market_id

\* the price is a number above 0
PositivePrice(p) == p[2] > 0 /\ p[1] > 0

TheSession == CHOOSE s \in scan_sessions : s.id = session_id

\* the scan results and the flagged scan results of the session
SessionResults == {r \in scan_results : r.session_id = session_id}
SessionFlagged == {r \in SessionResults : r.is_flagged = 1}

\* C12: the status of a session changes only from running to completed or
\* from running to failed, so a run writes one terminal status and a
\* session marked completed is never marked failed afterwards, nor the
\* reverse.
C12_OneTerminalStatus ==
    [][\A s \in scan_sessions : \A t \in scan_sessions' :
           (t.id = s.id /\ t.status # s.status) =>
               /\ s.status = "running"
               /\ t.status \in {"completed", "failed"}]_vars

\* the holder fetch of the market at the loop position gave two sides with
\* enough holders
Scorable(result) == result.kind = "ok" /\ ~insufficient_holders(result)

\* the run is over and the only errors in it were of the given kinds
EndedWithOnly(kinds) == pc = "done" /\ session_id # 0 /\ faults \subseteq kinds

\* every batch was gathered and every market of the last one was visited
AllVisited ==
    /\ batch_start + scan_BATCH_SIZE >= Len(scan_markets)
    /\ scan_markets # <<>> => batch_pos = Len(batch_results) + 1
    /\ scan_markets # <<>> => Len(batch_results) = Len(scan_batch)

\* the step handles one market whose errors, if any, are of the given kinds:
\* a market whose holder fetch failed or gave too few holders is passed
\* over, any other market gets its row and its scan result, and the loop
\* moves on
OneMarketStep(kinds) ==
    (pc = "market" /\ faults' \subseteq kinds) =>
        LET result == batch_results[batch_pos]
            id == scan_batch[batch_pos]
        IN  /\ batch_pos' = batch_pos + 1
            /\ pc' \in {"market", "progress"}
            /\ ~raised'
            /\ IF Scorable(result)
               THEN /\ rows_of(markets', id) # {}
                    /\ \E r \in scan_results' \ scan_results :
                           /\ r.market_id = id
                           /\ r.session_id = session_id
                           /\ scan_results' = scan_results \cup {r}
               ELSE /\ scan_results' = scan_results
                    /\ markets' = markets

\* C13 as stated: an error while fetching, enriching, scoring or persisting
\* one market skips only that market, the other markets of the batch and
\* the later batches are processed and the session ends completed.
C13_AnyMarketErrorSkipsOneMarket ==
    /\ [](EndedWithOnly({"holders", "enrich", "scoring", "persisting"}) =>
              /\ TheSession.status = "completed"
              /\ ~raised
              /\ AllVisited)
    /\ [][OneMarketStep({"holders", "enrich", "scoring", "persisting"})]_vars

\* C13: an error of a market's holder fetch skips only that market and an
\* error of a wallet's positions fetch during the enrichment leaves the
\* holder's PNL unknown; in both cases every other market of the batch and
\* of the later batches is processed and the session ends completed.
C13_FetchErrorSkipsOneMarket ==
    /\ [](EndedWithOnly({"holders", "enrich"}) =>
              /\ TheSession.status = "completed"
              /\ ~raised
              /\ AllVisited)
    /\ [][OneMarketStep({"holders", "enrich"})]_vars

\* a run over two batches has ended completed although a holder fetch
\* failed in it, with the scan result of another market stored
C13_Witness ==
    /\ EndedWithOnly({"holders", "enrich"})
    /\ "holders" \in faults
    /\ Len(scan_markets) > scan_BATCH_SIZE
    /\ TheSession.status = "completed"
    /\ SessionResults # {}

KeyOf(wallet_address) == <<wallet_address[1], "lower">>

\* the step ends the positions request of task k
Responded(k) ==
    /\ pc = "gather"
    /\ k \in 1..Len(enrich_tasks)
    /\ enrich_tasks[k].pc = "awaiting"
    /\ enrich_tasks'[k].pc = "done"

\* every PNL field of the positions is a number, null or absent
AllNumeric(positions) ==
    \A i \in 1..Len(positions) :
        /\ positions[i].cashPnl.kind # "text"
        /\ positions[i].realizedPnl.kind # "text"

\* a lookup whose fetch gave no position leaves the cache as it is and
\* returns nothing, and the holder of a lookup that returned nothing keeps
\* its unknown PNL
EmptyFetchNotCached ==
    /\ \A k \in 1..Len(enrich_tasks) :
           (Responded(k) /\ enrich_tasks'[k].positions = <<>>) =>
               /\ pnl_cache' = pnl_cache
               /\ enrich_tasks'[k].result = ReturnsNone
    /\ (pc = "gather" /\ pc' # "gather") =>
           \A k \in 1..Len(enrich_tasks) :
               enrich_tasks[k].result.kind # "pnl" =>
                   /\ enrich_holders'[enrich_start + k]
                          = enrich_holders[enrich_start + k]
                   /\ IsNone(enrich_holders'[enrich_start + k].overall_pnl)

\* a lookup started for a wallet whose key is not in the cache sends a
\* positions request; one started for a wallet whose key is in the cache,
\* in whatever letter case the address is written, sends none and returns
\* the cached result; every key of the cache is in lower case
CacheByLowercasedAddress ==
    /\ pc = "dispatch" =>
           \A k \in 1..Len(enrich_tasks') :
               LET key == KeyOf(enrich_tasks'[k].wallet_address)
               IN  IF key \in DOMAIN pnl_cache
                   THEN /\ enrich_tasks'[k].pc = "done"
                        /\ enrich_tasks'[k].result = Returns(pnl_cache[key])
                   ELSE enrich_tasks'[k].pc = "awaiting"
    /\ \A w \in DOMAIN pnl_cache' : w[2] = "lower"

\* the result of the lookup of task k is in the cache under the key of its
\* wallet after the step
CachedAfter(k) ==
    /\ enrich_tasks'[k].result.kind = "pnl"
    /\ KeyOf(enrich_tasks[k].wallet_address) \in DOMAIN pnl_cache'
    /\ pnl_cache'[KeyOf(enrich_tasks[k].wallet_address)]
           = enrich_tasks'[k].result.pnl

\* C15 as stated: a wallet whose positions fetch is empty or fails is not
\* cached, its holder keeps unknown PNL and its next lookup sends a new
\* request; a wallet whose fetch returned a non-empty list is cached under
\* its lowercased address and reused for later holders in any letter case.
C15_NonEmptyFetchCached ==
    [][/\ EmptyFetchNotCached
       /\ CacheByLowercasedAddress
       /\ \A k \in 1..Len(enrich_tasks) :
              (Responded(k) /\ enrich_tasks'[k].positions # <<>>) =>
                  CachedAfter(k)]_vars

\* C15: a wallet whose positions fetch is empty or fails is not cached, its
\* holder keeps unknown PNL and its next lookup sends a new request; a
\* wallet whose fetch returned a non-empty list of positions with numeric,
\* null or absent PNL fields is cached under its lowercased address and
\* reused for later holders in any letter case; a non-empty list with a PNL
\* field that is no number makes the lookup raise, and the wallet is not
\* cached and its holder keeps unknown PNL.
C15_NumericFetchCached ==
    [][/\ EmptyFetchNotCached
       /\ CacheByLowercasedAddress
       /\ \A k \in 1..Len(enrich_tasks) :
              (Responded(k) /\ enrich_tasks'[k].positions # <<>>) =>
                  IF AllNumeric(enrich_tasks'[k].positions)
                  THEN CachedAfter(k)
                  ELSE /\ enrich_tasks'[k].result = Raises
                       /\ pnl_cache' = pnl_cache]_vars

\* in a second call a holder whose address has capitals got the result
\* cached under the lower-case key without a request, next to a holder of
\* the other account whose request failed and who is not in the cache
C15_Witness ==
    /\ pc = "gather"
    /\ enrich_calls = 2
    /\ <<1, "lower">> \in DOMAIN pnl_cache
    /\ \E k, j \in 1..Len(enrich_tasks) :
           /\ enrich_tasks[k].wallet_address = <<1, "mixed">>
           /\ enrich_tasks[k].pc = "done"
           /\ enrich_tasks[k].positions = <<>>
           /\ enrich_tasks[k].result = Returns(pnl_cache[<<1, "lower">>])
           /\ enrich_tasks[j].wallet_address = <<2, "mixed">>
           /\ enrich_tasks[j].pc = "done"
           /\ enrich_tasks[j].result = ReturnsNone
           /\ <<2, "lower">> \notin DOMAIN pnl_cache

\* C16: no positions request is under way or sent for a wallet whose result
\* is in the cache, and no lookup writes a cache entry that another lookup
\* has written, also when a wallet is twice in one gathered batch.
C16_OneLookupPerWallet ==
    /\ [](\A k \in 1..Len(enrich_tasks) :
              enrich_tasks[k].pc = "awaiting" =>
                  KeyOf(enrich_tasks[k].wallet_address)
                      \notin DOMAIN pnl_cache)
    /\ [][\A k \in 1..Len(enrich_tasks) :
              (Responded(k) /\ enrich_tasks'[k].result.kind = "pnl") =>
                  KeyOf(enrich_tasks[k].wallet_address)
                      \notin DOMAIN pnl_cache]_vars

\* ---- the market catalog (market_fetcher.py 56-143, 204-247)

\* C17: a call of fetch_all_active_markets with a max_markets returns at
\* most that many markets.
C17_AtMostMaxMarkets ==
    (pc = "done" /\ max_markets # NullInt) => Len(all_markets) <= max_markets

\* C18: every market fetch_all_active_markets returns has a market id, a
\* condition id, a YES token id and a NO token id, none of them empty.
C18_MarketsHaveIds ==
    pc = "done" =>
        \A i \in 1..Len(all_markets) :
            /\ all_markets[i].market_id # ""
            /\ all_markets[i].condition_id # ""
            /\ all_markets[i].token_id_yes # ""
            /\ all_markets[i].token_id_no # ""

\* the first two entries of a list-valued field can be read
Readable(field) == field.kind \in {"list", "json"}

\* the record does not give two outcome token ids
LacksTwoTokens(r) ==
    \/ ~Readable(r.clobTokenIds)
    \/ Len(r.clobTokenIds.items) < 2
    \/ r.clobTokenIds.items[1] = "" \/ r.clobTokenIds.items[2] = ""

\* the record does not give two outcomes
LacksTwoOutcomes(r) == ~Readable(r.outcomes) \/ Len(r.outcomes.items) < 2

\* the record's outcome prices are null or unreadable, or one of the first
\* two is no number
UnreadablePrices(r) ==
    \/ ~Readable(r.outcomePrices)
    \/ \E i \in 1..2 :
           /\ i <= Len(r.outcomePrices.items)
           /\ r.outcomePrices.items[i] = BadPrice

\* the record does not give two outcome prices
LacksTwoPrices(r) == UnreadablePrices(r) \/ Len(r.outcomePrices.items) < 2

\* the record's end date is past, or beyond the window of the fetcher
OutOfDate(r) ==
    /\ r.endDate.kind = "iso"
    /\ \/ r.endDate.t < now
       \/ /\ max_days_to_expiry \notin {NullInt, 0}
          /\ r.endDate.t - now > max_days_to_expiry

InBulkPhase(t) == t \in bulk_parsed /\ id_requests[t] = 0
InFallbackPhase(t) == t \notin bulk_parsed /\ id_requests[t] = 1

\* C21: in one reconciliation run every target is handled in exactly one of
\* the two phases: a target found in the bulk result is parsed from its bulk
\* record and never fetched by id, a target absent from it gets exactly one
\* fetch by id, no target is skipped and none gets two resolution writes
C21_EveryTargetHandledOnce ==
    /\ \A t \in unresolved_ids :
           /\ run_writes[t] <= 1
           /\ id_requests[t] <= 1
           /\ t \in bulk_parsed => id_requests[t] = 0
    /\ pc \in {"end", "died"} =>
           \A t \in unresolved_ids : InBulkPhase(t) \/ InFallbackPhase(t)

\* C21 for the runs in which parse_resolution does not raise
C21_HandledOnceUnlessRaised ==
    /\ \A t \in unresolved_ids :
           /\ run_writes[t] <= 1
           /\ id_requests[t] <= 1
           /\ t \in bulk_parsed => id_requests[t] = 0
    /\ pc = "end" =>
           \A t \in unresolved_ids : InBulkPhase(t) \/ InFallbackPhase(t)

\* A run has ended with one target handled in each phase
C21_BothPhases ==
    /\ pc = "end"
    /\ \E t, u \in unresolved_ids : InBulkPhase(t) /\ InFallbackPhase(u)

RecognisedYes == {"Yes", "YES", "yes", "True", "true", "1"}
RecognisedNo == {"No", "NO", "no", "False", "false", "0"}

\* the record's winner is missing: no winningOutcome and no outcome price
\* above 0.95
WinnerMissing ==
    /\ market_data.winningOutcome.kind = "none"
    /\ winner_from_prices(outcome_prices(market_data)) = "None"

\* the record's winner is ambiguous: a winningOutcome string that names
\* neither side
WinnerAmbiguous ==
    /\ market_data.winningOutcome.kind = "str"
    /\ market_data.winningOutcome.v \notin RecognisedYes \cup RecognisedNo

\* C22: parse_resolution reports a closed market as unresolved whenever its
\* winner is missing or ambiguous: a winningOutcome that is neither a
\* recognised YES value nor a recognised NO value (the empty string, an
\* unexpected string) never produces a recorded outcome
C22_AmbiguousWinnerUnresolved ==
    (pc = "done" /\ is_closed(market_data)
        /\ (WinnerMissing \/ WinnerAmbiguous)) =>
        resolution.resolved_outcome = "None"

\* C22 for a missing winner alone
C22_MissingWinnerUnresolved ==
    (pc = "done" /\ is_closed(market_data) /\ WinnerMissing) =>
        resolution.resolved_outcome = "None"

\* C24: a run never repeats a request to the closed-markets listing: each
\* page offset is requested at most once, so that whatever the listing
\* answers (rate-limit responses included) at most max_pages page requests
\* are made
C24_NoRequestRepeated ==
    /\ \A i, j \in 1..Len(requests) :
           requests[i].offset = requests[j].offset => i = j
    /\ Len(requests) <= max_pages

\* C24 without the rate-limit responses: each page offset is answered at
\* most once by something other than a 429, at most max_pages times in all
C24_NoRepeatUnlessRateLimited ==
    LET answered == {i \in 1..Len(requests) : requests[i].status # 429}
    IN  /\ \A i, j \in answered :
               requests[i].offset = requests[j].offset => i = j
        /\ Cardinality(answered) <= max_pages

\* the all-targets-found break has ended the paging
StoppedAllFound ==
    /\ pc = "done"
    /\ batch # <<>>
    /\ found_count >= Cardinality(target_ids)

\* C25: bulk paging stops on the all-targets-found condition only when
\* every target id is a key of the accumulated dictionary, also when the
\* listing returns a target market more than once
C25_AllFoundMeansAllPresent ==
    StoppedAllFound => target_ids \subseteq DOMAIN closed_markets

\* ---- run_scan: batches, progress and totals (run_scan.py 64-159)

\* C26: at most BATCH_SIZE holder fetches are in flight at any time, and
\* the fetches of a batch are dispatched only when every fetch of the batch
\* before has settled, every market of that batch that could be scored has
\* its scan result stored and the progress of that batch is written
C26_BatchesDoNotOverlap ==
    /\ [](Cardinality(in_flight) <= scan_BATCH_SIZE)
    /\ [][(pc = "batch" /\ pc' = "fetching" /\ batch_start > 0) =>
            /\ in_flight = {}
            /\ Len(batch_results) = scan_BATCH_SIZE
            /\ \A k \in 1..Len(batch_results) :
                   Scorable(batch_results[k]) =>
                       \E r \in SessionResults :
                           r.market_id =
                               scan_markets[batch_start - scan_BATCH_SIZE + k]
            /\ TheSession.scanned_count = Cardinality(SessionResults)
            /\ TheSession.flagged_markets = Cardinality(SessionFlagged)]_vars

\* the fetches of the second batch are in flight, with a scan result of the
\* first batch stored and counted in the session row
C26_Witness ==
    /\ pc = "fetching"
    /\ batch_start = scan_BATCH_SIZE
    /\ in_flight # {}
    /\ SessionResults # {}
    /\ TheSession.scanned_count = Cardinality(SessionResults)

\* the session row's counts are those of the stored scan results
CountsMatchResults(session, results) ==
    /\ session.scanned_count =
           Cardinality({r \in results : r.session_id = session.id})
    /\ session.flagged_markets =
           Cardinality({r \in results :
                           r.session_id = session.id /\ r.is_flagged = 1})
    /\ session.flagged_markets <= session.scanned_count

\* C27: progress is written once per batch, at its end; after every
\* progress write and at successful completion the persisted scanned and
\* flagged counts are the numbers of scan results and of flagged scan
\* results of the session, with flagged <= scanned <= target count, and
\* neither persisted count ever decreases
C27_ProgressMatchesResults ==
    /\ [][pc \notin {"start", "done"} =>
            LET before == TheSession
                after == CHOOSE s \in scan_sessions' : s.id = session_id
            IN  /\ after.scanned_count >= before.scanned_count
                /\ after.flagged_markets >= before.flagged_markets
                /\ pc # "progress" =>
                       after.scanned_count = before.scanned_count
                /\ (pc = "progress" /\ ~raised') =>
                       /\ CountsMatchResults(after, scan_results')
                       /\ after.scanned_count <= Len(scan_markets)
                       /\ \/ pc' = "complete"
                          \/ /\ pc' = "batch"
                             /\ batch_start' = batch_start + scan_BATCH_SIZE]_vars
    /\ []((pc \in {"summary", "done"} /\ session_id # 0
             /\ TheSession.status = "completed") =>
              /\ CountsMatchResults(TheSession, scan_results)
              /\ TheSession.scanned_count <= Len(scan_markets))

\* the progress of the first of two batches is written: two scan results,
\* one of them flagged
C27_Witness ==
    /\ pc = "batch"
    /\ batch_start = scan_BATCH_SIZE
    /\ TheSession.scanned_count = 2
    /\ TheSession.flagged_markets = 1
    /\ Cardinality(SessionFlagged) = 1

\* C28: a session has at most one scan result per market id, whatever the
\* catalog (also one that lists a market twice), and every scan result
\* refers to a market row upserted before it
C28_OneResultPerMarket ==
    /\ \A r \in scan_results : \A q \in scan_results :
           (r.session_id = q.session_id /\ r.market_id = q.market_id) =>
               r = q
    /\ \A r \in scan_results : rows_of(markets, r.market_id) # {}

\* C28, second half alone: every scan result has its market row
C28_ResultHasMarketRow ==
    \A r \in scan_results : rows_of(markets, r.market_id) # {}

\* the holder fetch gave fewer than MIN_HOLDER_COUNT holders on a side
TooFewHolders(result) ==
    /\ result.kind = "ok"
    /\ \/ Len(result.yes) < MIN_HOLDER_COUNT
       \/ Len(result.no) < MIN_HOLDER_COUNT

\* C29: a market with fewer than the minimum holder count on either side
\* is skipped without effect: no enrichment request, no market row upsert,
\* no scan result, counters and session row unchanged, and the loop moves
\* on without failing the session
C29_TooFewHoldersSkipped ==
    [][(pc = "market" /\ TooFewHolders(batch_results[batch_pos])) =>
           /\ enrich_requests' = enrich_requests
           /\ markets' = markets
           /\ mk_call' = mk_call
           /\ scan_results' = scan_results
           /\ scanned_count' = scanned_count
           /\ flagged_count' = flagged_count
           /\ scan_sessions' = scan_sessions
           /\ ~raised'
           /\ batch_pos' = batch_pos + 1
           /\ pc' \in {"market", "progress"}]_vars

\* the loop has passed a market with one holder on the YES side and nothing
\* was requested or stored
C29_Witness ==
    /\ pc \in {"market", "progress"}
    /\ batch_pos > 1
    /\ TooFewHolders(batch_results[batch_pos - 1])
    /\ enrich_requests = 0
    /\ scan_results = {}
    /\ markets = {}
    /\ TheSession.status = "running"

\* C30: the session's total_markets is the number of liquidity-filtered
\* target markets from before the first holder fetch is dispatched, and
\* still is that number after the session is completed or failed
C30_TotalIsTargetCount ==
    pc \notin {"start", "catalog"} =>
        TheSession.total_markets = Len(scan_markets)

\* C30, first half alone: total_markets is the target count from the
\* catalog step until the session is finalised
C30_TotalSetBeforeFetches ==
    pc \in {"batch", "fetching", "market", "progress", "complete"} =>
        TheSession.total_markets = Len(scan_markets)

====
